---------------------------- MODULE Spec2Model ----------------------------
(***************************************************************************)
(* Model of the multi-bot backend (Sundingalue/multi-bot-inteligent-v2).   *)
(*                                                                         *)
(* The repository is a set of independent request handlers that share no   *)
(* state across subsystems, so the module holds one specification per      *)
(* subsystem:                                                              *)
(*   SpecIG*     instagram_webhook.py  (de-duplication, ON/OFF cache)      *)
(*   SpecIGRace  instagram_webhook.py  (_seen_mid, concurrent requests)    *)
(*   SpecBridge  voice_webrtc_bridge.py (Twilio <-> OpenAI Realtime)       *)
(*   SpecWA      main.py POST /webhook  (WhatsApp handler, kill switch)    *)
(*   SpecWADialogue main.py POST /webhook (the dialogue, switches ON)       *)
(*   SpecApi     main.py bearer-protected endpoints                        *)
(*   SpecEleven  routes/eleven_session.py, routes/eleven_webrtc.py         *)
(*   SpecSendLink routes/send_link.py                                      *)
(*   SpecLoader  utils/bot_loader.py                                       *)
(*   SpecLead    main.py, one lead document under concurrent requests      *)
(*   SpecLedger  billing_api.py, record_openai_usage under concurrent calls *)
(* Every specification leaves the variables of the other subsystems at     *)
(* their initial values.                                                   *)
(***************************************************************************)
EXTENDS Integers, Sequences, FiniteSets, TLC

VARIABLES
    \* ---- instagram_webhook.py ----
    SEEN_MIDS,            \* deque of message ids, oldest first
    SEEN_SET,             \* set of message ids
    IG_SESSION_HISTORY,   \* psid -> sequence of message roles
    IG_GREETED,           \* set of psids already greeted
    IG_STATUS_CACHE,      \* [ok, ts]
    igEnv,                \* module-level environment of instagram_webhook.py
    igNow,                \* time.time(), seconds
    wpEnabled,            \* what the WordPress endpoint reports
    wpOffSince,           \* time since which it reports enabled=false (-1: on)
    wpFailedSinceOff,     \* a status fetch failed since it reports false
    recentMids,           \* history: distinct mids given to _seen_mid, newest first
    igLast,               \* what the last Instagram request did
    \* ---- voice_webrtc_bridge.py, one stream_ws connection ----
    stream_sid,                          \* a streamSid is known
    have_appended_since_last_commit,
    appended_samples_since_last_commit,
    last_commit_time,                    \* tenths of a second
    last_append_time,
    greeting_sent,
    ai_busy,
    stop_flag,                           \* the connection has ended
    brNow,                               \* time.time(), tenths of a second
    activeResponses,      \* history: responses requested from the AI and not ended
    appendedSinceMark,    \* history: samples appended since the last commit sent / start
    lastSpeechTime,       \* history: when the caller last spoke
    speechSinceMark,      \* history: speech appended since the last commit or start
    greetingsSent,        \* history: greeting response.create messages sent
    brLast,               \* what the last bridge step did
    \* ---- main.py, POST /webhook: one bot number and one sender ----
    fbStatus,             \* Firebase billing/status/<bot>
    fbBotEnabled,         \* Firebase leads/<bot>/<numero>/bot_enabled
    fbHistorial,          \* Firebase leads/<bot>/<numero>/historial (tipo of each entry)
    session_present,      \* clave_sesion in session_history
    session_history,      \* session_history[clave_sesion] (role of each message)
    greeted_state,        \* greeted_state.get(clave_sesion)
    agenda_state,         \* agenda_state[clave_sesion] (present: the key exists)
    waLast,               \* what the last WhatsApp request did
    \* ---- main.py, endpoints behind the bearer token ----
    API_BEARER_TOKEN,     \* the configured token (<<>>: none)
    apiLast,              \* what the last API request did
    \* ---- routes/eleven_session.py, routes/eleven_webrtc.py ----
    XI_API_KEY,           \* a server key is configured
    elCards,              \* the cards load_bot finds, per bot
    elLast,               \* what the last POST /eleven/webrtc did
    \* ---- routes/send_link.py ----
    slCard,               \* what load_bot gives for the bot of the request
    slLast,               \* what the last POST /actions/send-link did
    \* ---- utils/bot_loader.py ----
    botFiles,             \* what each file under consideration holds
    ldLast,               \* what the last call of the loader did
    \* ---- main.py, one lead document under concurrent requests ----
    fbLead,               \* Firebase leads/<bot>/<numero>, the whole document
    leadReqs,             \* the requests in flight: handler, position, copy read
    convOffAcked,         \* history: enabled=false was answered ok, no enabled=true since
    appendsDone,          \* history: fb_append_historial calls completed
    leadOtherWrite,       \* history: a writer other than fb_append_historial wrote
    leadLast,             \* what the last step on the lead did
    \* ---- billing_api.py, the usage document of one bot and one UTC day ----
    fbUsageDay,           \* Firebase billing/.../openai/<bot>/<day>
    usageReqs,            \* the record_openai_usage calls in flight
    usageDone,            \* history: the calls completed and the tokens they reported
    \* ---- main.py, POST /webhook: the dialogue of one conversation ----
    waSeen,               \* the last message of the dialogue and the reply it got
    \* ---- instagram_webhook.py, _seen_mid under concurrent requests ----
    igThreads,            \* the requests in flight: position and mid
    igDelivered,          \* history: events delivered
    igReplied             \* history: replies produced, per mid

igVars == <<SEEN_MIDS, SEEN_SET, IG_SESSION_HISTORY, IG_GREETED, IG_STATUS_CACHE,
            igEnv, igNow, wpEnabled, wpOffSince, wpFailedSinceOff, recentMids, igLast>>

brVars == <<stream_sid, have_appended_since_last_commit,
            appended_samples_since_last_commit, last_commit_time, last_append_time,
            greeting_sent, ai_busy, stop_flag, brNow, activeResponses,
            appendedSinceMark, lastSpeechTime, speechSinceMark, greetingsSent,
            brLast>>

waVars == <<fbStatus, fbBotEnabled, fbHistorial, session_present, session_history,
            greeted_state, agenda_state, waLast>>

apiVars == <<API_BEARER_TOKEN, apiLast>>

elVars == <<XI_API_KEY, elCards, elLast>>

slVars == <<slCard, slLast>>

\* The request handlers and loaders that keep no state shared with the five
\* subsystems above.
ldVars == <<botFiles, ldLast>>

leadVars == <<fbLead, leadReqs, convOffAcked, appendsDone, leadOtherWrite, leadLast>>

ledgerVars == <<fbUsageDay, usageReqs, usageDone>>

dlgVars == <<waSeen>>

raceVars == <<igThreads, igDelivered, igReplied>>

extVars == <<slVars, ldVars, leadVars, ledgerVars, dlgVars, raceVars>>

vars == <<igVars, brVars, waVars, apiVars, elVars, extVars>>

\* The variables of the other subsystems, which a subsystem's actions leave alone.
notIgVars == <<brVars, waVars, apiVars, elVars, extVars>>
notBrVars == <<igVars, waVars, apiVars, elVars, extVars>>
notWaVars == <<igVars, brVars, apiVars, elVars, extVars>>
notElVars == <<igVars, brVars, waVars, apiVars, extVars>>
\* The API requests write the lead of the WhatsApp conversation.
notApiVars == <<igVars, brVars, elVars, fbStatus, session_present,
                session_history, greeted_state, agenda_state, waLast, extVars>>
coreVars == <<igVars, brVars, waVars, apiVars, elVars>>
notSlVars == <<coreVars, ldVars, leadVars, ledgerVars, dlgVars, raceVars>>
notLdVars == <<coreVars, slVars, leadVars, ledgerVars, dlgVars, raceVars>>
notLeadVars == <<coreVars, slVars, ldVars, ledgerVars, dlgVars, raceVars>>
notLedgerVars == <<coreVars, slVars, ldVars, leadVars, dlgVars, raceVars>>
\* What POST /webhook leaves alone, its record of the dialogue apart.
notWebhookVars == <<igVars, brVars, apiVars, elVars, slVars, ldVars, leadVars,
                    ledgerVars, raceVars>>
\* What a request in _seen_mid leaves alone.
notRaceVars == <<IG_SESSION_HISTORY, IG_GREETED, IG_STATUS_CACHE, igEnv, igNow,
                 wpEnabled, wpOffSince, wpFailedSinceOff, recentMids, igLast,
                 brVars, waVars, apiVars, elVars, slVars, ldVars, leadVars,
                 ledgerVars, dlgVars>>

-----------------------------------------------------------------------------
(* Generic helpers *)

Min(a, b) == IF a <= b THEN a ELSE b

Max(a, b) == IF a >= b THEN a ELSE b

RECURSIVE SeqWithout(_, _)
SeqWithout(s, x) ==
    IF s = <<>> THEN <<>>
    ELSE IF Head(s) = x THEN SeqWithout(Tail(s), x)
         ELSE <<Head(s)>> \o SeqWithout(Tail(s), x)

Prefix(s, n) == SubSeq(s, 1, Min(n, Len(s)))

SeqElems(s) == {s[i] : i \in 1..Len(s)}

-----------------------------------------------------------------------------
(***************************************************************************)
(* instagram_webhook.py                                                    *)
(***************************************************************************)

\* deque(maxlen=1000) of the source, scaled down.
SeenMaxlen == 3
\* Message ids Meta may deliver ("" is an event without mid).
NumMids == 4
Mids == {""} \cup {"m1", "m2", "m3", "m4", "m5"}
MidsInUse == {""} \cup {m \in Mids \ {""} :
                 \E i \in 1..NumMids : m = <<"m1", "m2", "m3", "m4", "m5">>[i]}
\* Sender ids ("" is an event without sender).
Psids == {"", "u1"}
\* Longest session history kept by the model.
MaxHist == 3
\* Clock of the Instagram module: first instant, last instant, step (seconds).
IgStartTime == 20
IgMaxNow == 50
IgTickStep == 10
\* IG_STATUS_TTL = int(os.getenv("IG_STATUS_TTL", "20"))
IG_STATUS_TTL == 20

FetchOutcomes == {"200", "http_error", "raise"}

\* collections.deque.append on a deque with maxlen: a full deque drops its
\* leftmost element.
DequeAppend(dq, x, maxlen) ==
    IF Len(dq) >= maxlen THEN Tail(dq) \o <<x>> ELSE dq \o <<x>>

\* _seen_mid(mid): [dup, mids, set] is the returned value and the two
\* containers after the call.
seen_mid(mid, mids, set) ==
    IF mid = "" THEN [dup |-> FALSE, mids |-> mids, set |-> set]
    ELSE IF mid \in set THEN [dup |-> TRUE, mids |-> mids, set |-> set]
    ELSE LET set1  == set \cup {mid}
             mids1 == DequeAppend(mids, mid, SeenMaxlen)
         IN  IF Cardinality(set1) > SeenMaxlen
             THEN \* viejo = _SEEN_MIDS.popleft(); _SEEN_SET.discard(viejo)
                  [dup |-> FALSE, mids |-> Tail(mids1), set |-> set1 \ {Head(mids1)}]
             ELSE [dup |-> FALSE, mids |-> mids1, set |-> set1]

\* Mutant of ig_is_enabled: a cached answer never expires.
ig_is_enabled_never_expires(cache, now, env, fetch, reported) ==
    IF env.wp_url /\ cache.ts > 0
    THEN [ok |-> cache.ok, cache |-> cache, fetched |-> FALSE]
    ELSE IF ~env.wp_url
    THEN [ok |-> env.default_on,
          cache |-> [ok |-> env.default_on, ts |-> now], fetched |-> FALSE]
    ELSE IF fetch = "200"
    THEN [ok |-> reported, cache |-> [ok |-> reported, ts |-> now], fetched |-> TRUE]
    ELSE [ok |-> env.default_on,
          cache |-> [ok |-> env.default_on, ts |-> now], fetched |-> TRUE]

\* Mutant of ig_is_enabled: a failed fetch keeps the cached answer.
ig_is_enabled_keeps_on_failure(cache, now, env, fetch, reported) ==
    IF env.wp_url /\ (now - cache.ts < IG_STATUS_TTL)
    THEN [ok |-> cache.ok, cache |-> cache, fetched |-> FALSE]
    ELSE IF ~env.wp_url
    THEN [ok |-> env.default_on,
          cache |-> [ok |-> env.default_on, ts |-> now], fetched |-> FALSE]
    ELSE IF fetch = "200"
    THEN [ok |-> reported, cache |-> [ok |-> reported, ts |-> now], fetched |-> TRUE]
    ELSE [ok |-> cache.ok,
          cache |-> [ok |-> cache.ok, ts |-> now], fetched |-> TRUE]

\* _ig_is_enabled(): [ok, cache, fetched] is the returned value, the cache
\* after the call and whether the WordPress endpoint was asked.  `fetch` is
\* the outcome of requests.get and `reported` the "enabled" field of its body.
ig_is_enabled(cache, now, env, fetch, reported) ==
    IF env.wp_url /\ (now - cache.ts < IG_STATUS_TTL)
    THEN [ok |-> cache.ok, cache |-> cache, fetched |-> FALSE]
    ELSE IF ~env.wp_url
    THEN [ok |-> env.default_on,
          cache |-> [ok |-> env.default_on, ts |-> now], fetched |-> FALSE]
    ELSE IF fetch = "200"
    THEN [ok |-> reported, cache |-> [ok |-> reported, ts |-> now], fetched |-> TRUE]
    ELSE \* non-200 answer, or requests.get raised
         [ok |-> env.default_on,
          cache |-> [ok |-> env.default_on, ts |-> now], fetched |-> TRUE]

\* _send_ig_text(psid, text): [sent, cache, fetched]: whether the Graph API
\* was called, and the status cache after the call.
send_ig_text(cache, now, env, fetch, reported) ==
    LET en == ig_is_enabled(cache, now, env, fetch, reported)
    IN  [sent    |-> en.ok /\ env.meta_ok,
         cache   |-> en.cache,
         fetched |-> en.fetched]

IgTexts == {"", "hola", "link", "other"}
\* any(k in low for k in intro_keywords)
HasIntroKeyword(text) == text = "hola"
\* _wants_link(text)
wants_link(text) == text = "link"

\* handle_one(page_id, psid, text, mid, is_echo) of ig_events.  The record
\* holds every piece of state the call may change and what it did.
handle_one(st, psid, text, mid, is_echo, now, env, fetch, reported) ==
    LET none == [st EXCEPT !.passed = FALSE]
    IN
    IF psid = "" \/ text = "" THEN none
    ELSE IF is_echo THEN none
    ELSE
    LET sm  == seen_mid(mid, st.mids, st.set)
        st1 == [st EXCEPT !.mids = sm.mids, !.set = sm.set, !.asked = (mid # "")]
    IN
    IF sm.dup THEN [st1 EXCEPT !.passed = FALSE]
    ELSE IF ~env.has_bot THEN [st1 EXCEPT !.passed = FALSE]
    ELSE
    LET h0  == IF st1.hist[psid] = <<>>
               THEN (IF env.system_prompt THEN <<"system">> ELSE <<>>)
               ELSE st1.hist[psid]
        st2 == [st1 EXCEPT !.hist[psid] = h0, !.passed = TRUE]
        saludo == (psid \notin st2.greeted) /\ HasIntroKeyword(text) /\ env.intro_message
    IN
    IF saludo
    THEN LET s == send_ig_text(st2.cache, now, env, fetch, reported)
         IN  [st2 EXCEPT !.cache = s.cache,
                         !.fetches = @ + (IF s.fetched THEN 1 ELSE 0),
                         !.sent = @ + (IF s.sent THEN 1 ELSE 0),
                         !.greeted = @ \cup {psid}]
    ELSE IF wants_link(text) /\ env.booking_url
    THEN LET s == send_ig_text(st2.cache, now, env, fetch, reported)
         IN  [st2 EXCEPT !.cache = s.cache,
                         !.fetches = @ + (IF s.fetched THEN 1 ELSE 0),
                         !.sent = @ + (IF s.sent THEN 1 ELSE 0),
                         !.senders = @ + 1]
    ELSE
    LET st3 == [st2 EXCEPT !.hist[psid] = Append(@, "user")]
        en  == ig_is_enabled(st3.cache, now, env, fetch, reported)
        st4 == [st3 EXCEPT !.cache = en.cache,
                           !.fetches = @ + (IF en.fetched THEN 1 ELSE 0)]
    IN
    IF ~en.ok THEN st4
    ELSE LET s == send_ig_text(st4.cache, now, env, fetch, reported)
         IN  [st4 EXCEPT !.cache = s.cache,
                         !.fetches = @ + (IF s.fetched THEN 1 ELSE 0),
                         !.llm = @ + 1,
                         !.sent = @ + (IF s.sent THEN 1 ELSE 0),
                         !.hist[psid] = Append(@, "assistant"),
                         !.senders = @ + 1]

\* history variable: the distinct mids handed to _seen_mid, newest first.
TouchRecent(recent, mid) == <<mid>> \o SeqWithout(recent, mid)

\* The premise of the ON/OFF switch: the endpoint has reported enabled=false
\* for at least IG_STATUS_TTL seconds and every fetch since then answered 200.
OffLongEnough(now, fetch) ==
    /\ igEnv.wp_url
    /\ ~wpEnabled
    /\ wpOffSince >= 0
    /\ now - wpOffSince >= IG_STATUS_TTL
    /\ ~wpFailedSinceOff
    /\ fetch = "200"

\* What the last request did (reset when time passes or the switch is flipped).
IgIdle == [kind |-> "none", status |-> "none", sent |-> 0, llm |-> 0, fetches |-> 0,
           passed |-> FALSE, recentDup |-> FALSE, stateSame |-> TRUE,
           offLong |-> FALSE, expired |-> FALSE, failed |-> FALSE, enabled |-> TRUE,
           prevOk |-> TRUE]

\* Deployments: the module-level environment of instagram_webhook.py.
IgEnvs == [wp_url : BOOLEAN, default_on : BOOLEAN, meta_ok : BOOLEAN,
           has_bot : {TRUE}, system_prompt : {TRUE},
           intro_message : {TRUE}, booking_url : {TRUE}]

\* The deployment the other subsystems' specifications run beside.
IgEnvDefault == [wp_url |-> TRUE, default_on |-> TRUE, meta_ok |-> TRUE,
                 has_bot |-> TRUE, system_prompt |-> TRUE,
                 intro_message |-> TRUE, booking_url |-> TRUE]

InitIG ==
    /\ SEEN_MIDS = <<>>
    /\ SEEN_SET = {}
    /\ IG_SESSION_HISTORY = [p \in Psids \ {""} |-> <<>>]
    /\ IG_GREETED = {}
    /\ igEnv \in IgEnvs
    /\ IG_STATUS_CACHE = [ok |-> igEnv.default_on, ts |-> 0]
    /\ igNow = IgStartTime
    /\ wpEnabled = TRUE
    /\ wpOffSince = -1
    /\ wpFailedSinceOff = FALSE
    /\ recentMids = <<>>
    /\ igLast = IgIdle

\* Bodies of POST /webhook_instagram: one messaging event each.
IgEvent(object_ok, psid, text, mid, is_echo) ==
    [object_ok |-> object_ok, psid |-> psid, text |-> text, mid |-> mid,
     is_echo |-> is_echo]
\* events that exercise the de-duplication
DedupEvents ==
    {IgEvent(TRUE, "u1", t, m, FALSE) : t \in {"hola", "link", "other"}, m \in MidsInUse}
    \cup {IgEvent(TRUE, "u1", "other", m, TRUE) : m \in MidsInUse \ {""}}
    \cup {IgEvent(TRUE, "", "other", "m1", FALSE), IgEvent(TRUE, "u1", "", "m1", FALSE),
          IgEvent(FALSE, "u1", "other", "m1", FALSE)}
\* events that exercise the ON/OFF switch (Meta sends no mid)
SwitchEvents ==
    {IgEvent(TRUE, "u1", t, "", FALSE) : t \in {"hola", "link", "other"}}

\* POST /webhook_instagram
IgEvents(ev, fetch) ==
    LET en == ig_is_enabled(IG_STATUS_CACHE, igNow, igEnv, fetch, wpEnabled)
        st0 == [mids |-> SEEN_MIDS, set |-> SEEN_SET, hist |-> IG_SESSION_HISTORY,
                greeted |-> IG_GREETED, cache |-> en.cache,
                fetches |-> IF en.fetched THEN 1 ELSE 0,
                sent |-> 0, llm |-> 0, senders |-> 0, asked |-> FALSE, passed |-> FALSE]
        status == IF ~en.ok THEN "disabled"
                  ELSE IF ~igEnv.meta_ok THEN "env-missing"
                  ELSE IF ~ev.object_ok THEN "ignored"
                  ELSE "ok"
        st == IF status = "ok"
              THEN handle_one(st0, ev.psid, ev.text, ev.mid, ev.is_echo,
                              igNow, igEnv, fetch, wpEnabled)
              ELSE st0
        expired == ~(igEnv.wp_url /\ igNow - IG_STATUS_CACHE.ts < IG_STATUS_TTL)
    IN
    /\ ev.psid # "" => Len(IG_SESSION_HISTORY[ev.psid]) + 3 <= MaxHist + 1
    /\ expired \/ fetch = "200"    \* the outcome of a fetch that is not made is no input
    /\ SEEN_MIDS' = st.mids
    /\ SEEN_SET' = st.set
    /\ IG_SESSION_HISTORY' = st.hist
    /\ IG_GREETED' = st.greeted
    /\ IG_STATUS_CACHE' = st.cache
    /\ recentMids' = IF st.asked THEN TouchRecent(recentMids, ev.mid) ELSE recentMids
    /\ wpFailedSinceOff' = (wpFailedSinceOff \/ (st.fetches > 0 /\ fetch # "200" /\ ~wpEnabled))
    /\ igLast' = [kind |-> "events", status |-> status, sent |-> st.sent, llm |-> st.llm,
                  fetches |-> st.fetches, passed |-> st.passed,
                  recentDup |-> (ev.mid # "" /\ ev.psid # "" /\ ev.text # "" /\ ~ev.is_echo
                                 /\ status = "ok"
                                 /\ ev.mid \in SeqElems(Prefix(recentMids, SeenMaxlen))),
                  stateSame |-> (st.hist = IG_SESSION_HISTORY /\ st.greeted = IG_GREETED),
                  offLong |-> OffLongEnough(igNow, fetch),
                  expired |-> expired,
                  failed |-> (fetch # "200"), enabled |-> en.ok,
                  prevOk |-> IG_STATUS_CACHE.ok]
    /\ UNCHANGED <<igEnv, igNow, wpEnabled, wpOffSince>>
    /\ UNCHANGED notIgVars

\* GET /ig_status
IgStatus(fetch) ==
    LET en == ig_is_enabled(IG_STATUS_CACHE, igNow, igEnv, fetch, wpEnabled)
        expired == ~(igEnv.wp_url /\ igNow - IG_STATUS_CACHE.ts < IG_STATUS_TTL)
    IN
    /\ expired \/ fetch = "200"
    /\ IG_STATUS_CACHE' = en.cache
    /\ wpFailedSinceOff' = (wpFailedSinceOff \/ (en.fetched /\ fetch # "200" /\ ~wpEnabled))
    /\ igLast' = [IgIdle EXCEPT !.kind = "status", !.status = "200",
                  !.fetches = IF en.fetched THEN 1 ELSE 0,
                  !.offLong = OffLongEnough(igNow, fetch),
                  !.expired = expired,
                  !.failed = (fetch # "200"), !.enabled = en.ok,
                  !.prevOk = IG_STATUS_CACHE.ok]
    /\ UNCHANGED <<SEEN_MIDS, SEEN_SET, IG_SESSION_HISTORY, IG_GREETED, igEnv, igNow,
                   wpEnabled, wpOffSince, recentMids>>
    /\ UNCHANGED notIgVars

\* The panel user flips the switch in WordPress.
WpToggle ==
    /\ wpEnabled' = ~wpEnabled
    /\ wpOffSince' = IF wpEnabled THEN igNow ELSE -1
    /\ wpFailedSinceOff' = FALSE
    /\ igLast' = IgIdle
    /\ UNCHANGED <<SEEN_MIDS, SEEN_SET, IG_SESSION_HISTORY, IG_GREETED, IG_STATUS_CACHE,
                   igEnv, igNow, recentMids>>
    /\ UNCHANGED notIgVars

\* Time passes.
IgTick ==
    /\ igNow + IgTickStep <= IgMaxNow
    /\ igNow' = igNow + IgTickStep
    /\ igLast' = IgIdle
    /\ UNCHANGED <<SEEN_MIDS, SEEN_SET, IG_SESSION_HISTORY, IG_GREETED, IG_STATUS_CACHE,
                   igEnv, wpEnabled, wpOffSince, wpFailedSinceOff, recentMids>>
    /\ UNCHANGED notIgVars

\* Events handled one at a time within one cache period.
NextIGDedup ==
    \E ev \in DedupEvents, fetch \in FetchOutcomes : IgEvents(ev, fetch)

\* The switch, the cache and the clock.
NextIGSwitch ==
    \/ \E ev \in SwitchEvents, fetch \in FetchOutcomes : IgEvents(ev, fetch)
    \/ \E fetch \in FetchOutcomes : IgStatus(fetch)
    \/ WpToggle
    \/ IgTick


-----------------------------------------------------------------------------
(***************************************************************************)
(* voice_webrtc_bridge.py: stream_ws, one Twilio <Stream> connection.      *)
(*                                                                         *)
(* Times are in tenths of a second.  time.time() is far from 0.0, the      *)
(* initial value of last_commit_time and last_append_time, so the clock    *)
(* starts at BrStartTime; when it reaches BrMaxNow the time origin is      *)
(* moved instead (every stored instant moves back, 0 standing for "long    *)
(* ago"), which keeps every difference the code compares.  The counters    *)
(* frames and out_frames only feed print() and are left out, as are the    *)
(* session.update of the start event and the audio forwarded to Twilio.    *)
(***************************************************************************)

\* MIN_COMMIT_GAP_SEC = 1.2
MIN_COMMIT_GAP_SEC == 12
\* MIN_SILENCE_GAP_SEC = 0.6
MIN_SILENCE_GAP_SEC == 6
\* MIN_COMMIT_SAMPLES = 3200
MIN_COMMIT_SAMPLES == 3200

BrStartTime == 12
BrMaxNow == 24
BrTickStep == 6
\* Samples counted by the model (larger sums are recorded as MaxSamples).
MaxSamples == 4800
\* Responses in flight counted by the model.
MaxActive == 2
\* len(pcm16) // 2 of the frames Twilio delivers.
FrameSamples == {1600, 3200}

\* Mutant of enough_audio: any appended audio is enough.
enough_audio_any(n) == n > 0

\* enough_audio = appended_samples_since_last_commit["n"] >= MIN_COMMIT_SAMPLES
enough_audio(n) == n >= MIN_COMMIT_SAMPLES

\* the commit heuristic of the media event
commit_due(st, now) ==
    /\ st.have_appended /\ ~st.ai_busy
    /\ enough_audio(st.n)
    /\ (now - st.last_commit_time) >= MIN_COMMIT_GAP_SEC
    /\ (now - st.last_append_time) >= MIN_SILENCE_GAP_SEC

\* Mutant of greeting_due: every start event greets.
greeting_due_always(sent) == TRUE

\* if not greeting_sent:
greeting_due(sent) == ~sent

BrState ==
    [stream_sid |-> stream_sid,
     have_appended |-> have_appended_since_last_commit,
     n |-> appended_samples_since_last_commit,
     last_commit_time |-> last_commit_time,
     last_append_time |-> last_append_time,
     greeting_sent |-> greeting_sent,
     ai_busy |-> ai_busy,
     \* what the handler sent to the AI
     appended |-> 0, commit |-> FALSE, create |-> FALSE, greeting |-> FALSE,
     raised |-> FALSE]

\* et == "start".  greetOk: the greeting's ai.send does not raise.
start_event(st, greetOk) ==
    LET st1 == [st EXCEPT !.stream_sid = TRUE,
                          !.last_commit_time = 0,
                          !.last_append_time = 0,
                          !.have_appended = FALSE,
                          !.n = 0,
                          !.ai_busy = FALSE]
    IN  IF greeting_due(st1.greeting_sent)
        THEN IF greetOk
             THEN [st1 EXCEPT !.create = TRUE, !.greeting = TRUE,
                              !.ai_busy = TRUE, !.greeting_sent = TRUE]
             ELSE [st1 EXCEPT !.raised = TRUE]
        ELSE st1

\* et == "media".  payload: "none" | "speech" | "silence"; samples: the
\* frame's length; appendOk: the append's ai.send does not raise; sends:
\* "ok" | "commit_fails" | "create_fails" for the two sends of a commit.
media_event(st, payload, samples, appendOk, sends, now) ==
    LET st1 == IF payload # "none" /\ appendOk
               THEN [st EXCEPT !.have_appended = TRUE,
                               !.n = Min(@ + samples, MaxSamples),
                               !.last_append_time = now,
                               !.appended = samples]
               ELSE [st EXCEPT !.raised = (payload # "none")]
    IN  IF commit_due(st1, now)
        THEN [st1 EXCEPT !.commit = (sends # "commit_fails"),
                         !.raised = (@ \/ sends # "ok"),
                         !.create = (sends = "ok"),
                         !.ai_busy = IF sends = "ok" THEN TRUE ELSE @,
                         !.last_commit_time = now,
                         !.have_appended = FALSE,
                         !.n = 0]
        ELSE st1

\* pump_ai_to_twilio: t in ("response.completed", "response.stopped")
response_ended(st) == [st EXCEPT !.ai_busy = FALSE]

BrIdle == [kind |-> "none", payload |-> "none", commit |-> FALSE, create |-> FALSE,
           greeting |-> FALSE, activeBefore |-> 0, samplesAtCommit |-> 0,
           greetedBefore |-> 0, greetOk |-> FALSE, sendFailed |-> FALSE]

InitBridge ==
    /\ stream_sid = FALSE
    /\ have_appended_since_last_commit = FALSE
    /\ appended_samples_since_last_commit = 0
    /\ last_commit_time = 0
    /\ last_append_time = 0
    /\ greeting_sent = FALSE
    /\ ai_busy = FALSE
    /\ stop_flag = FALSE
    /\ brNow = BrStartTime
    /\ activeResponses = 0
    /\ appendedSinceMark = 0
    /\ lastSpeechTime = 0
    /\ speechSinceMark = FALSE
    /\ greetingsSent = 0
    /\ brLast = BrIdle

\* The handler's result written back to the connection's variables.
BrStore(st) ==
    /\ stream_sid' = st.stream_sid
    /\ have_appended_since_last_commit' = st.have_appended
    /\ appended_samples_since_last_commit' = st.n
    /\ last_commit_time' = st.last_commit_time
    /\ last_append_time' = st.last_append_time
    /\ greeting_sent' = st.greeting_sent
    /\ ai_busy' = st.ai_busy
    /\ activeResponses' = IF st.create THEN Min(activeResponses + 1, MaxActive)
                          ELSE activeResponses
    /\ greetingsSent' = IF st.greeting THEN Min(greetingsSent + 1, 2) ELSE greetingsSent

\* Twilio sends a start event.
TwilioStart(greetOk) ==
    LET st == start_event(BrState, greetOk)
    IN  /\ ~stop_flag
        /\ BrStore(st)
        /\ appendedSinceMark' = 0
        /\ speechSinceMark' = FALSE
        /\ brLast' = [BrIdle EXCEPT !.kind = "start", !.create = st.create,
                                    !.greeting = st.greeting,
                                    !.activeBefore = activeResponses,
                                    !.greetedBefore = greetingsSent,
                                    !.greetOk = greetOk,
                                    !.sendFailed = st.raised]
        /\ UNCHANGED <<stop_flag, brNow, lastSpeechTime>>
        /\ UNCHANGED notBrVars

\* Twilio sends a media event.
TwilioMedia(payload, samples, appendOk, sends) ==
    LET st == media_event(BrState, payload, samples, appendOk, sends, brNow)
        buffered == Min(appendedSinceMark + st.appended, MaxSamples)
    IN  /\ ~stop_flag
        /\ BrStore(st)
        /\ appendedSinceMark' = IF st.commit THEN 0 ELSE buffered
        /\ lastSpeechTime' = IF payload = "speech" THEN brNow ELSE lastSpeechTime
        /\ speechSinceMark' = IF st.commit THEN FALSE
                              ELSE speechSinceMark \/ (payload = "speech" /\ st.appended > 0)
        /\ brLast' = [BrIdle EXCEPT !.kind = "media", !.payload = payload,
                                    !.commit = st.commit, !.create = st.create,
                                    !.activeBefore = activeResponses,
                                    !.samplesAtCommit = IF st.commit THEN buffered ELSE 0,
                                    !.greetedBefore = greetingsSent,
                                    !.sendFailed = st.raised]
        /\ UNCHANGED <<stop_flag, brNow>>
        /\ UNCHANGED notBrVars

\* Twilio keeps delivering frames that carry audio, and the AI takes them.
TwilioMediaDelivered ==
    \E payload \in {"speech", "silence"}, samples \in FrameSamples :
        TwilioMedia(payload, samples, TRUE, "ok")

\* Twilio sends a stop event, or the socket closes.
TwilioStop ==
    /\ ~stop_flag
    /\ stop_flag' = TRUE
    /\ brLast' = [BrIdle EXCEPT !.kind = "stop"]
    /\ UNCHANGED <<stream_sid, have_appended_since_last_commit,
                   appended_samples_since_last_commit, last_commit_time,
                   last_append_time, greeting_sent, ai_busy, brNow, activeResponses,
                   appendedSinceMark, lastSpeechTime, speechSinceMark,
                   greetingsSent>>
    /\ UNCHANGED notBrVars

\* The AI reports the end of a response (response.completed / response.stopped).
AiResponseEnded ==
    LET st == response_ended(BrState)
    IN  /\ ~stop_flag
        /\ activeResponses > 0
        /\ ai_busy' = st.ai_busy
        /\ activeResponses' = activeResponses - 1
        /\ brLast' = [BrIdle EXCEPT !.kind = "ai_end"]
        /\ UNCHANGED <<stream_sid, have_appended_since_last_commit,
                       appended_samples_since_last_commit, last_commit_time,
                       last_append_time, greeting_sent, stop_flag, brNow,
                       appendedSinceMark, lastSpeechTime, speechSinceMark,
                   greetingsSent>>
        /\ UNCHANGED notBrVars

Back(t) == Max(t - BrTickStep, 0)

\* Time passes.
BrTick ==
    /\ ~stop_flag
    /\ IF brNow + BrTickStep <= BrMaxNow
       THEN /\ brNow' = brNow + BrTickStep
            /\ UNCHANGED <<last_commit_time, last_append_time, lastSpeechTime>>
       ELSE /\ brNow' = brNow
            /\ last_commit_time' = Back(last_commit_time)
            /\ last_append_time' = Back(last_append_time)
            /\ lastSpeechTime' = Back(lastSpeechTime)
    /\ brLast' = BrIdle
    /\ UNCHANGED <<stream_sid, have_appended_since_last_commit,
                   appended_samples_since_last_commit, greeting_sent, ai_busy,
                   stop_flag, activeResponses, appendedSinceMark, speechSinceMark,
                   greetingsSent>>
    /\ UNCHANGED notBrVars

MediaInputs ==
    {<<"none", 0, TRUE>>}
    \cup {<<p, n, ok>> : p \in {"speech", "silence"}, n \in FrameSamples, ok \in BOOLEAN}

NextBridge ==
    \/ \E greetOk \in BOOLEAN : TwilioStart(greetOk)
    \/ \E m \in MediaInputs, sends \in {"ok", "commit_fails", "create_fails"} :
          TwilioMedia(m[1], m[2], m[3], sends)
    \/ TwilioStop
    \/ AiResponseEnded
    \/ BrTick

-----------------------------------------------------------------------------
(***************************************************************************)
(* main.py: POST /webhook (WhatsApp), one bot and one sender               *)
(***************************************************************************)

\* Longest lead history (Firebase) and session history (memory) kept.
MaxLead == 2
MaxSess == 3
\* Firebase / OpenAI calls that may raise during a request; at most one does.
FaultKinds == {"hydrate", "append_user", "status_read", "conv_read", "llm", "append_bot"}
FaultSets == {{}} \cup {{k} : k \in FaultKinds}

\* Bodies of the inbound message, one per branch of the handler.
WaTexts == {"descargar app", "no", "gracias", "listo", "si", "cita", "hola", "precio"}
\* The messages sent while the kill switch is exercised: a greeting, the
\* agenda dialogue (keyword, confirmation) and a question for the LLM.
WaSwitchTexts == {"hola", "cita", "si", "precio"}

\* _wants_app_download(text)
wants_app_download(t) == t = "descargar app"
\* _is_negative(texto)
is_negative(t) == t = "no"
\* _is_polite_closure(texto)
is_polite_closure(t) == t = "gracias"
\* _is_scheduled_confirmation(texto)
is_scheduled_confirmation(t) == t = "listo"
\* _is_affirmative(texto)
is_affirmative(t) == t = "si"
\* any(k in incoming_msg.lower() for k in bot["agenda"]["keywords"])
has_agenda_keyword(t) == t = "cita"
\* any(w in incoming_msg.lower() for w in intro_keywords)
has_intro_keyword(t) == t = "hola"

\* Values stored at billing/status/<bot> and leads/<bot>/<numero>/bot_enabled.
FbFlags == {"none", "true", "false", "str_on", "str_other"}

\* fb_is_bot_on(bot_name): `raised` is db.reference(...).get() raising.
fb_is_bot_on(val, raised) ==
    IF raised THEN TRUE
    ELSE IF val \in {"true", "false"} THEN val = "true"
    ELSE IF val \in {"str_on", "str_other"} THEN val = "str_on"
    ELSE TRUE

\* fb_is_conversation_on(bot_nombre, numero)
fb_is_conversation_on(val, raised) ==
    IF raised THEN TRUE
    ELSE IF val \in {"true", "false"} THEN val = "true"
    ELSE IF val \in {"str_on", "str_other"} THEN val = "str_on"
    ELSE TRUE

\* fb_append_historial(bot, numero, entrada): the lead's historial after the
\* call; `raised` is the read or the write raising (the caller catches it).
fb_append_historial(historial, tipo, raised) ==
    IF raised THEN historial ELSE Append(historial, tipo)

\* _default_agenda() of state.py; link_recent stands for
\* minutes_since(last_link_time) < cooldown_min.
default_agenda ==
    [present |-> FALSE, awaiting_confirm |-> FALSE, status |-> "none",
     last_bot_hash |-> "", closed |-> FALSE, link_recent |-> FALSE]

\* get_agenda(clave_sesion): agenda_state.get(clave_sesion) or _default_agenda()
get_agenda(ag) == IF ag.present THEN ag ELSE default_agenda

\* set_agenda(clave_sesion, **kw): kw is a function from field names to values.
set_agenda(ag, kw) ==
    [f \in DOMAIN ag |->
        IF f = "present" THEN TRUE
        ELSE IF f \in DOMAIN kw THEN kw[f] ELSE get_agenda(ag)[f]]

\* agenda_state.setdefault(clave_sesion, {})[field] = value
agenda_setdefault(ag, field, value) ==
    [ag EXCEPT !.present = TRUE, ![field] = value]

\* can_send_link(clave_sesion, cooldown_min=10)
can_send_link(ag) ==
    ~(get_agenda(ag).status \in {"link_sent", "confirmed"} /\ get_agenda(ag).link_recent)

\* _hydrate_session_from_firebase: the roles of the rebuilt session (the bot
\* has a system prompt and every stored entry has a text).
RECURSIVE hydrated_msgs(_)
hydrated_msgs(historial) ==
    IF historial = <<>> THEN <<>>
    ELSE <<IF Head(historial) = "user" THEN "user" ELSE "assistant">>
         \o hydrated_msgs(Tail(historial))

hydrate_session_from_firebase(st) ==
    IF st.session_present THEN st
    ELSE [st EXCEPT !.session_present = TRUE,
                    !.session = <<"system">> \o hydrated_msgs(st.historial),
                    !.greeted = IF Len(st.historial) > 0 THEN TRUE ELSE @]

\* Mutant of kill_switch_blocks: only the bot's global status is looked at.
kill_switch_blocks_bot_only(bot_on, conv_on) == ~bot_on

\* The two kill-switch tests of whatsapp_bot (the bot has a name):
\* "if bot_name and not fb_is_bot_on(...)" / "if not fb_is_conversation_on(...)".
kill_switch_blocks(bot_on, conv_on) == ~bot_on \/ ~conv_on

WaState ==
    [status |-> fbStatus, bot_enabled |-> fbBotEnabled, historial |-> fbHistorial,
     session_present |-> session_present, session |-> session_history,
     greeted |-> greeted_state, agenda |-> agenda_state,
     \* what the request did
     http |-> "200", body |-> "empty", llm |-> 0, bot_appended |-> FALSE,
     user_appended |-> FALSE, reached_check |-> FALSE, blocked |-> FALSE]

\* whatsapp_bot after the kill switch let the message through.
whatsapp_reply(st, msg, faults) ==
    LET ag == get_agenda(st.agenda)
    IN
    IF wants_app_download(msg)
    THEN [st EXCEPT !.body = "app_link",
                    !.agenda = [set_agenda(@, [status |-> "app_link_sent"])
                                   EXCEPT !.closed = TRUE]]
    ELSE IF is_negative(msg)
    THEN [st EXCEPT !.body = "cierre",
                    !.agenda = agenda_setdefault(@, "closed", TRUE)]
    ELSE IF is_polite_closure(msg)
    THEN [st EXCEPT !.body = "polite_closure",
                    !.agenda = agenda_setdefault(@, "closed", TRUE)]
    ELSE IF is_scheduled_confirmation(msg)
    THEN [st EXCEPT !.body = "closing_message",
                    !.agenda = [set_agenda(@, [status |-> "confirmed"])
                                   EXCEPT !.closed = TRUE]]
    ELSE IF ag.awaiting_confirm
    THEN IF is_affirmative(msg)
         THEN IF can_send_link(st.agenda)
              THEN [st EXCEPT !.body = "link_message",
                              !.agenda = [set_agenda(@, [awaiting_confirm |-> FALSE,
                                                         status |-> "link_sent",
                                                         link_recent |-> TRUE,
                                                         last_bot_hash |-> "link_message"])
                                             EXCEPT !.closed = TRUE],
                              !.historial = fb_append_historial(@, "bot",
                                                                "append_bot" \in faults),
                              !.bot_appended = "append_bot" \notin faults]
              ELSE [st EXCEPT !.body = "link_sent_recently",
                              !.agenda = set_agenda(@, [awaiting_confirm |-> FALSE])]
         ELSE IF is_negative(msg)
         THEN [st EXCEPT !.body = "decline_message",
                         !.agenda = [set_agenda(@, [awaiting_confirm |-> FALSE])
                                        EXCEPT !.closed = TRUE]]
         ELSE [st EXCEPT !.body = "confirm_question"]
    ELSE IF has_agenda_keyword(msg)
    THEN [st EXCEPT !.body = "confirm_question",
                    !.agenda = set_agenda(@, [awaiting_confirm |-> TRUE])]
    ELSE
    LET st1 == IF st.session_present THEN st
               ELSE [st EXCEPT !.session_present = TRUE, !.session = <<"system">>,
                               !.greeted = FALSE]
    IN
    IF ~st1.greeted /\ has_intro_keyword(msg)
    THEN [st1 EXCEPT !.body = "greeting", !.greeted = TRUE]
    ELSE
    LET st2 == [st1 EXCEPT !.session = Append(@, "user")]
    IN
    IF "llm" \in faults
    THEN [st2 EXCEPT !.body = "error", !.llm = 1]
    ELSE
    LET respuesta == IF get_agenda(st2.agenda).last_bot_hash = "answer"
                     THEN "answer_probe" ELSE "answer"
    IN  [st2 EXCEPT !.body = "answer", !.llm = 1,
                    !.session = Append(@, "assistant"),
                    !.agenda = agenda_setdefault(@, "last_bot_hash", respuesta),
                    !.historial = fb_append_historial(@, "bot", "append_bot" \in faults),
                    !.bot_appended = "append_bot" \notin faults]

\* whatsapp_bot(): POST /webhook.  known: the To number has a bot.
whatsapp_bot(st, msg, known, faults) ==
    IF ~known THEN [st EXCEPT !.body = "unassigned"]
    ELSE IF ~st.session_present /\ "hydrate" \in faults
    THEN \* fb_get_lead raises outside any try: Flask answers 500
         [st EXCEPT !.http = "500", !.body = "none"]
    ELSE
    LET st1 == hydrate_session_from_firebase(st)
        st2 == [st1 EXCEPT !.historial = fb_append_historial(@, "user",
                                                             "append_user" \in faults),
                           !.user_appended = "append_user" \notin faults,
                           !.reached_check = TRUE]
        bot_on  == fb_is_bot_on(st2.status, "status_read" \in faults)
        conv_on == fb_is_conversation_on(st2.bot_enabled, "conv_read" \in faults)
    IN
    IF kill_switch_blocks(bot_on, conv_on)
    THEN [st2 EXCEPT !.blocked = TRUE]
    ELSE whatsapp_reply(st2, msg, faults)

WaIdle == [kind |-> "none", known |-> FALSE, off |-> FALSE, http |-> "none",
           empty |-> FALSE, llm |-> 0, bot_appended |-> FALSE,
           user_appended |-> FALSE, agenda_same |-> TRUE, hydrate_raised |-> FALSE,
           append_failed |-> FALSE]

InitWA ==
    /\ fbStatus = "none"
    /\ fbBotEnabled = "none"
    /\ fbHistorial = <<>>
    /\ session_present = FALSE
    /\ session_history = <<>>
    /\ greeted_state = FALSE
    /\ agenda_state = default_agenda
    /\ waLast = WaIdle

\* POST /webhook: what the handler does to the state of the conversation.
WaHandled(msg, known, faults) ==
    LET st == whatsapp_bot(WaState, msg, known, faults)
        hydrate_raised == known /\ ~session_present /\ "hydrate" \in faults
    IN
    /\ Len(st.historial) <= MaxLead
    /\ Len(st.session) <= MaxSess
    /\ fbHistorial' = st.historial
    /\ session_present' = st.session_present
    /\ session_history' = st.session
    /\ greeted_state' = st.greeted
    /\ agenda_state' = st.agenda
    /\ waLast' = [kind |-> "webhook", known |-> known,
                  off |-> (~fb_is_bot_on(fbStatus, "status_read" \in faults)
                           \/ ~fb_is_conversation_on(fbBotEnabled, "conv_read" \in faults)),
                  http |-> st.http, empty |-> (st.body = "empty"), llm |-> st.llm,
                  bot_appended |-> st.bot_appended,
                  user_appended |-> st.user_appended,
                  agenda_same |-> (st.agenda = agenda_state),
                  hydrate_raised |-> hydrate_raised,
                  append_failed |-> ("append_user" \in faults)]
    /\ UNCHANGED <<fbStatus, fbBotEnabled>>
    /\ UNCHANGED notWebhookVars

\* Twilio posts an inbound WhatsApp message.
WaWebhook(msg, known, faults) ==
    /\ WaHandled(msg, known, faults)
    /\ UNCHANGED waSeen

WaSeenIdle == [kind |-> "none", msg |-> "", body |-> "none", awaiting_before |-> FALSE,
               bot_entries |-> 0, declined |-> FALSE]

InitDialogue == waSeen = WaSeenIdle

\* Twilio posts an inbound WhatsApp message of a dialogue with a configured
\* bot, Firebase and the LLM answering.
WaDialogue(msg) ==
    LET st == whatsapp_bot(WaState, msg, TRUE, {})
        awaiting == get_agenda(agenda_state).awaiting_confirm
    IN  /\ WaHandled(msg, TRUE, {})
        /\ waSeen' = [kind |-> "webhook", msg |-> msg, body |-> st.body,
                      awaiting_before |-> awaiting,
                      \* history: a pending confirmation was declined, and no
                      \* confirm question was asked since
                      declined |-> IF awaiting /\ is_negative(msg) THEN TRUE
                                   ELSE IF st.body = "confirm_question" THEN FALSE
                                   ELSE waSeen.declined,
                      bot_entries |-> Cardinality({i \in 1..Len(st.historial) :
                                                     st.historial[i] = "bot"})
                                      - Cardinality({i \in 1..Len(fbHistorial) :
                                                       fbHistorial[i] = "bot"})]

\* billing_api.toggle_bot -> _set_status(bot, state)
BillingToggle(state) ==
    /\ fbStatus' = IF state = "on" THEN "true" ELSE "false"
    /\ waLast' = WaIdle
    /\ UNCHANGED <<fbBotEnabled, fbHistorial, session_present, session_history,
                   greeted_state, agenda_state>>
    /\ UNCHANGED notWaVars

\* fb_set_conversation_on(bot, numero, enabled), reached from /api/conversation_bot
ConversationToggle(enabled) ==
    /\ fbBotEnabled' = IF enabled THEN "true" ELSE "false"
    /\ waLast' = WaIdle
    /\ UNCHANGED <<fbStatus, fbHistorial, session_present, session_history,
                   greeted_state, agenda_state>>
    /\ UNCHANGED notWaVars

\* The link cooldown (10 minutes) runs out.
WaCooldownEnds ==
    /\ agenda_state.link_recent
    /\ agenda_state' = [agenda_state EXCEPT !.link_recent = FALSE]
    /\ waLast' = WaIdle
    /\ UNCHANGED <<fbStatus, fbBotEnabled, fbHistorial, session_present,
                   session_history, greeted_state>>
    /\ UNCHANGED notWaVars

\* The process restarts: the runtime memories start empty again.
WaRestart ==
    /\ session_present
    /\ session_present' = FALSE
    /\ session_history' = <<>>
    /\ greeted_state' = FALSE
    /\ agenda_state' = default_agenda
    /\ waLast' = WaIdle
    /\ UNCHANGED <<fbStatus, fbBotEnabled, fbHistorial>>
    /\ UNCHANGED notWaVars

\* fb_clear_historial(bot, numero): the panel empties the lead's history.
LeadCleared ==
    /\ fbHistorial # <<>>
    /\ fbHistorial' = <<>>
    /\ waLast' = WaIdle
    /\ UNCHANGED <<fbStatus, fbBotEnabled, session_present, session_history,
                   greeted_state, agenda_state>>
    /\ UNCHANGED notWaVars

NextWA ==
    \/ \E msg \in WaSwitchTexts, faults \in FaultSets : WaWebhook(msg, TRUE, faults)
    \/ WaWebhook("hola", FALSE, {})
    \/ \E state \in {"on", "off"} : BillingToggle(state)
    \/ \E enabled \in BOOLEAN : ConversationToggle(enabled)
    \/ WaCooldownEnds
    \/ WaRestart
    \/ LeadCleared

\* The dialogue of one conversation whose switches stay ON.
NextWADialogue ==
    \/ \E msg \in WaTexts : WaDialogue(msg)
    \/ WaCooldownEnds
    \/ WaRestart
    \/ LeadCleared

-----------------------------------------------------------------------------
(***************************************************************************)
(* main.py: endpoints behind the optional bearer token                     *)
(***************************************************************************)

\* Header and token texts are sequences of symbols: words and blanks.
SP == " "

\* str.strip(): leading and trailing blanks removed.
RECURSIVE lstrip(_)
lstrip(s) == IF s # <<>> /\ Head(s) = SP THEN lstrip(Tail(s)) ELSE s
RECURSIVE rstrip(_)
rstrip(s) ==
    IF s # <<>> /\ s[Len(s)] = SP THEN rstrip(SubSeq(s, 1, Len(s) - 1)) ELSE s
strip(s) == rstrip(lstrip(s))

\* Values of the API_BEARER_TOKEN environment variable.
EnvTokens == {<<>>, <<"tok">>, <<SP, "tok", SP>>}

\* Authorization headers a client may send (<<>>: no header).
AuthHeaders ==
    {<<>>,
     <<"Bearer", SP, "tok">>,
     <<SP, "Bearer", SP, "tok", SP>>,
     <<"Bearer", SP, "bad">>,
     <<"bearer", SP, "tok">>}

\* Mutant of bearer_ok: any header of the Bearer scheme is accepted.
bearer_ok_any_bearer(token, header) ==
    IF token = <<>> THEN TRUE
    ELSE strip(header) # <<>> /\ Head(strip(header)) = "Bearer"

\* _bearer_ok(req)
bearer_ok(token, header) ==
    IF token = <<>> THEN TRUE
    ELSE strip(header) = <<"Bearer", SP>> \o token

\* The routes and the methods Flask accepts for them.
ApiRoutes == {"send_manual", "conversation_bot", "chat",
              "push_topic", "push_token", "push_universal", "push_health"}
RouteMethods(route) ==
    CASE route = "chat" -> {"GET", "OPTIONS"}
      [] route = "push_health" -> {"GET"}
      [] OTHER -> {"POST", "OPTIONS"}

\* What stops a request after authentication, if anything: invalid
\* parameters, a panel user without access to the bot, a bot without number
\* or no Twilio client, a failing Twilio / FCM / Firebase call.
ApiPaths == {"bad_params", "forbidden", "not_configured", "call_fails", "ok"}

ApiRequests ==
    {r \in [route : ApiRoutes, method : {"GET", "POST", "OPTIONS"},
            autenticado : BOOLEAN, header : AuthHeaders, path : ApiPaths,
            enabled : BOOLEAN] :
        /\ r.method \in RouteMethods(r.route)
        /\ (r.route # "conversation_bot" => r.enabled)}

\* The answer of a handler: status code and the outward calls it made.
ApiAnswer(status) ==
    [status |-> status, twilio |-> FALSE, fcm |-> FALSE, fb_write |-> FALSE,
     fb_written |-> FALSE]

\* api_send_manual()
api_send_manual(token, r) ==
    IF r.method = "OPTIONS" THEN ApiAnswer(204)
    ELSE IF ~r.autenticado /\ ~bearer_ok(token, r.header) THEN ApiAnswer(401)
    ELSE IF r.path = "bad_params" THEN ApiAnswer(400)
    ELSE IF r.autenticado /\ r.path = "forbidden" THEN ApiAnswer(403)
    ELSE IF r.path = "not_configured" THEN ApiAnswer(400)
    ELSE IF r.path = "call_fails"
    THEN [ApiAnswer(500) EXCEPT !.twilio = TRUE]
    ELSE [ApiAnswer(200) EXCEPT !.twilio = TRUE, !.fb_write = TRUE, !.fb_written = TRUE]

\* api_conversation_bot()
api_conversation_bot(token, r) ==
    IF r.method = "OPTIONS" THEN ApiAnswer(204)
    ELSE IF ~r.autenticado /\ ~bearer_ok(token, r.header) THEN ApiAnswer(401)
    ELSE IF r.path = "bad_params" THEN ApiAnswer(400)
    ELSE IF r.autenticado /\ r.path = "forbidden" THEN ApiAnswer(403)
    ELSE [ApiAnswer(200) EXCEPT !.fb_write = TRUE,
                                !.fb_written = (r.path # "call_fails")]

\* api_chat(bot, numero)
api_chat(token, r) ==
    IF r.method = "OPTIONS" THEN ApiAnswer(204)
    ELSE IF ~r.autenticado /\ ~bearer_ok(token, r.header) THEN ApiAnswer(401)
    ELSE IF r.path = "bad_params" THEN ApiAnswer(404)
    ELSE IF r.autenticado /\ r.path = "forbidden" THEN ApiAnswer(403)
    ELSE IF r.path = "call_fails" THEN ApiAnswer(500)
    ELSE ApiAnswer(200)

\* push_topic(), push_token(), push_universal()
push_send(token, r) ==
    IF r.method = "OPTIONS" THEN ApiAnswer(204)
    ELSE IF ~bearer_ok(token, r.header) THEN ApiAnswer(401)
    ELSE IF r.path = "bad_params" THEN ApiAnswer(400)
    ELSE IF r.path = "not_configured" /\ r.route # "push_topic"
    THEN ApiAnswer(400)
    ELSE IF r.path = "call_fails" THEN [ApiAnswer(500) EXCEPT !.fcm = TRUE]
    ELSE [ApiAnswer(200) EXCEPT !.fcm = TRUE]

\* push_health()
push_health == ApiAnswer(200)

ApiIdle == [kind |-> "none", route |-> "none", method |-> "none",
            autenticado |-> FALSE, exact |-> FALSE, stripped_exact |-> FALSE,
            bearer_ok |-> FALSE, status |-> 0, twilio |-> FALSE, fcm |-> FALSE,
            fb_write |-> FALSE]

InitApi ==
    /\ API_BEARER_TOKEN \in {strip(e) : e \in EnvTokens}
    /\ apiLast = ApiIdle

\* What a request left behind.
ApiStore(r, a) ==
    /\ apiLast' = [kind |-> "request", route |-> r.route, method |-> r.method,
                   autenticado |-> r.autenticado,
                   exact |-> (r.header = <<"Bearer", SP>> \o API_BEARER_TOKEN),
                   stripped_exact |-> (strip(r.header) = <<"Bearer", SP>> \o API_BEARER_TOKEN),
                   bearer_ok |-> bearer_ok(API_BEARER_TOKEN, r.header),
                   status |-> a.status, twilio |-> a.twilio, fcm |-> a.fcm,
                   fb_write |-> a.fb_write]
    /\ UNCHANGED API_BEARER_TOKEN
    /\ UNCHANGED notApiVars

\* POST|OPTIONS /api/send_manual
ApiSendManual(r) ==
    LET a == api_send_manual(API_BEARER_TOKEN, r)
    IN  /\ r.route = "send_manual"
        /\ a.fb_written => Len(fbHistorial) + 1 <= MaxLead
        /\ fbHistorial' = IF a.fb_written THEN Append(fbHistorial, "admin")
                          ELSE fbHistorial
        /\ UNCHANGED fbBotEnabled
        /\ ApiStore(r, a)

\* POST|OPTIONS /api/conversation_bot
ApiConversationBot(r) ==
    LET a == api_conversation_bot(API_BEARER_TOKEN, r)
    IN  /\ r.route = "conversation_bot"
        /\ fbBotEnabled' = IF a.fb_written
                           THEN (IF r.enabled THEN "true" ELSE "false")
                           ELSE fbBotEnabled
        /\ UNCHANGED fbHistorial
        /\ ApiStore(r, a)

\* GET|OPTIONS /api/chat/<bot>/<numero>
ApiChat(r) ==
    /\ r.route = "chat"
    /\ UNCHANGED <<fbBotEnabled, fbHistorial>>
    /\ ApiStore(r, api_chat(API_BEARER_TOKEN, r))

\* POST|OPTIONS /push/topic, /push/token, /push, /push/send (and /api/push...)
PushSend(r) ==
    /\ r.route \in {"push_topic", "push_token", "push_universal"}
    /\ UNCHANGED <<fbBotEnabled, fbHistorial>>
    /\ ApiStore(r, push_send(API_BEARER_TOKEN, r))

\* GET /push/health
PushHealth(r) ==
    /\ r.route = "push_health"
    /\ UNCHANGED <<fbBotEnabled, fbHistorial>>
    /\ ApiStore(r, push_health)

NextApi ==
    \/ \E r \in ApiRequests : ApiSendManual(r)
    \/ \E r \in ApiRequests : ApiConversationBot(r)
    \/ \E r \in ApiRequests : ApiChat(r)
    \/ \E r \in ApiRequests : PushSend(r)
    \/ \E r \in ApiRequests : PushHealth(r)

-----------------------------------------------------------------------------
(***************************************************************************)
(* routes/eleven_session.py and routes/eleven_webrtc.py: POST /eleven/webrtc *)
(***************************************************************************)

ElevenBots == {"sundin", "acme"}
\* A bot's card in bots/tarjeta_inteligente: absent (load_bot raises), without
\* an ElevenLabs agent id, or with one.
CardKinds == {"missing", "no_agent", "agent"}

\* Bodies of the request, and outcomes of the two calls to ElevenLabs.
Offers == {"", "  ", "v=0"}
TokenOutcomes == {"200_token", "200_blank", "http_error", "timeout", "raise"}
SdpOutcomes == {"200", "http_error", "timeout", "raise"}

ElevenRequests ==
    [bot : ElevenBots \cup {""}, offer : Offers, token : TokenOutcomes,
     sdp : SdpOutcomes]

\* load_bot(bot_id) followed by the lookup of the agent id in the card:
\* "raise", "" (no agent id) or the agent id (named after the card).
load_agent(cards, bot_id) ==
    CASE cards[bot_id] = "missing" -> "raise"
      [] cards[bot_id] = "no_agent" -> ""
      [] OTHER -> bot_id

\* _get_agent_id(bot_id) of eleven_session.py: a card that cannot be loaded
\* is replaced by the card of "sundin", whose loading is not guarded.
get_agent_id(cards, bot_id) ==
    IF cards[bot_id] = "missing" THEN load_agent(cards, "sundin")
    ELSE load_agent(cards, bot_id)

\* _agent_id_from_card(bot_slug) of eleven_webrtc.py
agent_id_from_card(cards, bot_slug) ==
    LET slug == IF bot_slug = "" THEN "sundin" ELSE bot_slug
    IN  IF load_agent(cards, slug) = "raise" THEN "" ELSE load_agent(cards, slug)

\* offer_sdp.strip()
offer_is_blank(offer) == offer \in {"", "  "}

ElevenAnswer(status) ==
    [status |-> status, token_requested |-> FALSE, sdp_requested |-> FALSE,
     answer |-> FALSE, agent |-> ""]

\* The steps the two handlers share once an agent id is known.
eleven_exchange(agent_id, r) ==
    LET asked == [ElevenAnswer(0) EXCEPT !.agent = agent_id, !.token_requested = TRUE]
    IN
    IF offer_is_blank(r.offer) THEN [ElevenAnswer(400) EXCEPT !.agent = agent_id]
    ELSE IF r.token = "http_error" THEN [asked EXCEPT !.status = 502]
    ELSE IF r.token = "timeout" THEN [asked EXCEPT !.status = 504]
    ELSE IF r.token = "raise" THEN [asked EXCEPT !.status = 502]
    ELSE IF r.token = "200_blank" THEN [asked EXCEPT !.status = 502]
    ELSE
    LET sent == [asked EXCEPT !.sdp_requested = TRUE]
    IN
    IF r.sdp = "timeout" THEN [sent EXCEPT !.status = 504]
    ELSE IF r.sdp = "raise" THEN [sent EXCEPT !.status = 502]
    ELSE IF r.sdp = "http_error" THEN [sent EXCEPT !.status = 502]
    ELSE [sent EXCEPT !.status = 200, !.answer = TRUE]

\* eleven_webrtc_proxy() of eleven_session.py, POST
eleven_webrtc_proxy(key, cards, r) ==
    LET bot_id == IF r.bot = "" THEN "sundin" ELSE r.bot
        agent_id == get_agent_id(cards, bot_id)
    IN
    IF ~key THEN ElevenAnswer(500)
    ELSE IF agent_id = "raise"
    THEN \* BotConfigNotFound leaves the view: Flask answers 500
         ElevenAnswer(500)
    ELSE IF agent_id = "" THEN ElevenAnswer(404)
    ELSE eleven_exchange(agent_id, r)

\* eleven_webrtc_sdp() of eleven_webrtc.py, POST
eleven_webrtc_sdp(key, cards, r) ==
    LET agent_id == agent_id_from_card(cards, r.bot)
    IN
    IF ~key THEN ElevenAnswer(500)
    ELSE IF agent_id = "" THEN ElevenAnswer(404)
    ELSE eleven_exchange(agent_id, r)

ElIdle == [kind |-> "none", module |-> "none", key |-> FALSE, status |-> 0,
           token_requested |-> FALSE, sdp_requested |-> FALSE, answer |-> FALSE,
           agent_found |-> FALSE, offer_blank |-> FALSE, token |-> "none",
           sdp |-> "none"]

InitEleven ==
    /\ XI_API_KEY \in BOOLEAN
    /\ elCards \in [ElevenBots -> CardKinds]
    /\ elLast = ElIdle

ElStore(module, a, r) ==
    /\ elLast' = [kind |-> "request", module |-> module, key |-> XI_API_KEY,
                  status |-> a.status, token_requested |-> a.token_requested,
                  sdp_requested |-> a.sdp_requested, answer |-> a.answer,
                  agent_found |-> (a.agent # ""), offer_blank |-> offer_is_blank(r.offer),
                  token |-> r.token, sdp |-> r.sdp]
    /\ UNCHANGED <<XI_API_KEY, elCards>>
    /\ UNCHANGED notElVars

\* POST /eleven/webrtc served by routes/eleven_session.py
ElevenProxy(r) ==
    /\ r \in ElevenRequests
    /\ ElStore("eleven_session", eleven_webrtc_proxy(XI_API_KEY, elCards, r), r)

\* POST /eleven/webrtc served by routes/eleven_webrtc.py
ElevenSdp(r) ==
    /\ r \in ElevenRequests
    /\ ElStore("eleven_webrtc", eleven_webrtc_sdp(XI_API_KEY, elCards, r), r)

NextEleven ==
    \/ \E r \in ElevenRequests : ElevenProxy(r)
    \/ \E r \in ElevenRequests : ElevenSdp(r)

-----------------------------------------------------------------------------
(***************************************************************************)
(* routes/send_link.py: POST /actions/send-link                            *)
(*                                                                         *)
(* A field of the JSON body is absent, a string or another JSON value; a   *)
(* string is kept as what .strip() leaves of it.  An exception that leaves *)
(* the view is answered by Flask with HTTP 500.                            *)
(***************************************************************************)

\* A phone number, character by character: "1", "0", "8" (any of 2-9), "-"
\* (any non-digit).
PhoneChars == {"1", "0", "8", "-"}

IsDigit(c) == c \in {"1", "0", "8"}

OnlyDigits(s) == SelectSeq(s, IsDigit)

\* r'^\D*1?\D*([2-9]\d{2})\D*([2-9]\d{2})\D*(\d{4})\D*$'
E164_US_PATTERN ==
    <<"D*", "1?", "D*", "2-9", "d", "d", "D*", "2-9", "d", "d", "D*",
      "d", "d", "d", "d", "D*">>

RECURSIVE re_match(_, _)
re_match(pat, s) ==
    IF pat = <<>> THEN s = <<>>
    ELSE LET p == Head(pat)
         IN  CASE p = "D*" -> \/ re_match(Tail(pat), s)
                              \/ s # <<>> /\ ~IsDigit(Head(s)) /\ re_match(pat, Tail(s))
               [] p = "1?" -> \/ re_match(Tail(pat), s)
                              \/ s # <<>> /\ Head(s) = "1" /\ re_match(Tail(pat), Tail(s))
               [] p = "2-9" -> s # <<>> /\ Head(s) = "8" /\ re_match(Tail(pat), Tail(s))
               [] OTHER -> s # <<>> /\ IsDigit(Head(s)) /\ re_match(Tail(pat), Tail(s))

\* _to_e164_us: "+1" and the ten digits of the three groups, or "".
to_e164_us(raw) ==
    IF re_match(E164_US_PATTERN, raw)
    THEN LET d == OnlyDigits(raw)
         IN  <<"+", "1">> \o SubSeq(d, Len(d) - 9, Len(d))
    ELSE <<>>

\* Values of a string field of the body: absent (or null, "" or 0), blank,
\* a text, or a truthy JSON value that is not a string (a number).
JsonFields == {"missing", "blank", "text", "number"}

\* (data.get(k) or "").strip(): the text left, or "raise" (AttributeError).
stripped_field(v) ==
    CASE v = "number" -> "raise"
      [] v = "text" -> "text"
      [] OTHER -> ""

\* The phone field when it holds a number instead of a string.
PhoneNotAString == <<"number">>

SlPhones ==
    { <<>>,
      <<"8", "0", "0", "8", "1", "0", "1", "0", "8", "0">>,
      <<"1", "-", "8", "0", "0", "-", "8", "1", "0", "-", "1", "0", "8", "0">>,
      <<"8", "0", "0", "8", "1", "0", "1", "0", "8">>,
      <<"1", "0", "0", "8", "1", "0", "1", "0", "8", "0">>,
      <<"8", "-", "0", "0", "8", "1", "0", "1", "0", "8", "0">> }

\* What load_bot(bot_key) gives: it raises, or a card that has or lacks a
\* booking URL, a Twilio sender for the channel and the Twilio credentials.
SlCards ==
    [raises : {TRUE}, booking : {FALSE}, from : {FALSE}, creds : {FALSE}]
    \cup [raises : {FALSE}, booking : BOOLEAN, from : BOOLEAN, creds : BOOLEAN]

\* A request: its body, and what Twilio does if asked to create the message.
SlRequests ==
    [json : {"object"}, bot : JsonFields, phone : SlPhones \cup {PhoneNotAString},
     link : {"missing", "text", "number"}, from : {"missing", "text", "number"},
     sid : {"missing", "text"}, token : {"missing", "text"},
     twilio : {"ok", "raise"}]
    \cup [json : {"array"}, bot : {"missing"}, phone : {<<>>}, link : {"missing"},
          from : {"missing"}, sid : {"missing"}, token : {"missing"}, twilio : {"ok"}]

SlAnswer(status, error, created) ==
    [status |-> status, error |-> error, created |-> created]

\* The checks a request has to pass, in the order of the handler.
sl_bot_key(r) == stripped_field(r.bot)
sl_phone_raises(r) == r.phone = PhoneNotAString
sl_to_e164(r) == IF r.phone = PhoneNotAString THEN <<>> ELSE to_e164_us(r.phone)
sl_link(card, r) == stripped_field(r.link) = "text" \/ (~card.raises /\ card.booking)
sl_from(card, r) == card.from \/ stripped_field(r.from) = "text"
sl_sid(card, r) == card.creds \/ stripped_field(r.sid) = "text"
sl_token(card, r) == card.creds \/ stripped_field(r.token) = "text"

send_link(card, r) ==
    IF r.json # "object" THEN SlAnswer(500, "exception", FALSE)
    ELSE IF sl_bot_key(r) = "raise" THEN SlAnswer(500, "exception", FALSE)
    ELSE IF sl_bot_key(r) = "" THEN SlAnswer(400, "BOT_REQUIRED", FALSE)
    ELSE IF sl_phone_raises(r) \/ stripped_field(r.link) = "raise"
         THEN SlAnswer(500, "exception", FALSE)
    ELSE IF sl_to_e164(r) = <<>> THEN SlAnswer(400, "PHONE_INVALID", FALSE)
    ELSE IF card.raises THEN SlAnswer(400, "BOT_LOAD_ERROR", FALSE)
    ELSE IF ~sl_link(card, r) THEN SlAnswer(400, "LINK_MISSING", FALSE)
    ELSE IF ~card.from /\ stripped_field(r.from) = "raise"
         THEN SlAnswer(500, "exception", FALSE)
    ELSE IF ~sl_from(card, r) \/ ~sl_sid(card, r) \/ ~sl_token(card, r)
         THEN SlAnswer(400, "CONFIG_MISSING", FALSE)
    ELSE IF r.twilio = "ok" THEN SlAnswer(200, "", TRUE)
    ELSE SlAnswer(500, "TWILIO_ERROR", FALSE)

SlIdle == [kind |-> "none", status |-> 0, error |-> "", created |-> FALSE,
           typed |-> FALSE, bot_ok |-> FALSE, phone_ok |-> FALSE, card_ok |-> FALSE,
           link_ok |-> FALSE, config_ok |-> FALSE, to |-> <<>>]

InitSendLink ==
    /\ slCard \in SlCards
    /\ slLast = SlIdle

\* POST /actions/send-link
SendLink(r) ==
    LET a == send_link(slCard, r)
    IN  /\ r \in SlRequests
        /\ slLast' = [kind |-> "request", status |-> a.status, error |-> a.error,
                      created |-> a.created,
                      typed |-> /\ r.json = "object"
                                /\ "number" \notin {r.bot, r.link, r.from}
                                /\ r.phone # PhoneNotAString,
                      bot_ok |-> (r.json = "object" /\ r.bot = "text"),
                      phone_ok |-> (sl_to_e164(r) # <<>>),
                      card_ok |-> ~slCard.raises,
                      link_ok |-> (r.link = "text" \/ (~slCard.raises /\ slCard.booking)),
                      config_ok |-> /\ slCard.from \/ r.from = "text"
                                    /\ slCard.creds \/ r.sid = "text"
                                    /\ slCard.creds \/ r.token = "text",
                      to |-> IF a.created THEN sl_to_e164(r) ELSE <<>>]
        /\ UNCHANGED slCard
        /\ UNCHANGED notSlVars

NextSendLink == \E r \in SlRequests : SendLink(r)

-----------------------------------------------------------------------------
(***************************************************************************)
(* utils/bot_loader.py                                                     *)
(*                                                                         *)
(* Strings are sequences of characters.  "J" stands for the suffix         *)
(* ".json" and "W" for the prefix "whatsapp:"; the directory names are     *)
(* shortened: PROJECT_ROOT is /p, "bots" is b and "tarjeta_inteligente"    *)
(* is t.                                                                   *)
(***************************************************************************)

SEP == "/"

PROJECT_ROOT == <<SEP, "p">>

StartsWith(s, prefix) ==
    Len(s) >= Len(prefix) /\ SubSeq(s, 1, Len(prefix)) = prefix

\* str.split("/")
RECURSIVE split(_)
split(s) ==
    IF \A i \in 1..Len(s) : s[i] # SEP THEN <<s>>
    ELSE LET i == CHOOSE k \in 1..Len(s) : s[k] = SEP /\ \A j \in 1..(k - 1) : s[j] # SEP
         IN  <<SubSeq(s, 1, i - 1)>> \o split(SubSeq(s, i + 1, Len(s)))

\* "/".join(comps)
RECURSIVE join_comps(_)
join_comps(comps) ==
    IF comps = <<>> THEN <<>>
    ELSE IF Len(comps) = 1 THEN comps[1]
    ELSE comps[1] \o <<SEP>> \o join_comps(Tail(comps))

\* os.path.join(a, b) (posixpath)
path_join(a, b) ==
    IF StartsWith(b, <<SEP>>) THEN b
    ELSE IF a = <<>> \/ a[Len(a)] = SEP THEN a \o b
    ELSE a \o <<SEP>> \o b

\* The loop of posixpath.normpath over the components.
RECURSIVE norm_comps(_, _, _)
norm_comps(comps, acc, rooted) ==
    IF comps = <<>> THEN acc
    ELSE LET c == Head(comps)
             rest == Tail(comps)
         IN  IF c = <<>> \/ c = <<".">> THEN norm_comps(rest, acc, rooted)
             ELSE IF c # <<".", ".">>
                     \/ (~rooted /\ acc = <<>>)
                     \/ (acc # <<>> /\ acc[Len(acc)] = <<".", ".">>)
                  THEN norm_comps(rest, Append(acc, c), rooted)
             ELSE IF acc # <<>> THEN norm_comps(rest, SubSeq(acc, 1, Len(acc) - 1), rooted)
             ELSE norm_comps(rest, acc, rooted)

\* os.path.normpath (posixpath)
normpath(path) ==
    IF path = <<>> THEN <<".">>
    ELSE LET slashes == IF ~StartsWith(path, <<SEP>>) THEN <<>>
                        ELSE IF StartsWith(path, <<SEP, SEP>>)
                                /\ ~StartsWith(path, <<SEP, SEP, SEP>>)
                             THEN <<SEP, SEP>>
                             ELSE <<SEP>>
             out == slashes \o join_comps(norm_comps(split(path), <<>>, slashes # <<>>))
         IN  IF out = <<>> THEN <<".">> ELSE out

safe_join(a, b) == normpath(path_join(a, b))

BOTS_DIR == path_join(path_join(PROJECT_ROOT, <<"b">>), <<"t">>)

IsDigitChar(c) == c \in {"1", "5"}

only_digits(s) == SelectSeq(s, IsDigitChar)

\* _e164: <<>> stands for None
e164(s) ==
    LET digits == only_digits(s)
        d11 == IF Len(digits) = 10 THEN <<"1">> \o digits ELSE digits
    IN  IF digits = <<>> THEN <<>>
        ELSE IF Len(d11) = 11 /\ Head(d11) = "1" THEN <<"+">> \o d11
        ELSE <<>>

\* The last loop of _normalize_keys: drops empty and repeated keys.
RECURSIVE dedup_keys(_, _)
dedup_keys(keys, out) ==
    IF keys = <<>> THEN out
    ELSE IF Head(keys) = <<>> \/ Head(keys) \in SeqElems(out)
         THEN dedup_keys(Tail(keys), out)
         ELSE dedup_keys(Tail(keys), Append(out, Head(keys)))

normalize_keys(id) ==
    LET bot_id == strip(id)
        prefixed == StartsWith(bot_id, <<"W">>)
        no_prefix == IF prefixed THEN Tail(bot_id) ELSE bot_id
        e == e164(no_prefix)
        keys == <<bot_id>>
                \o (IF prefixed THEN <<no_prefix>> ELSE <<>>)
                \o (IF e # <<>> THEN <<e, <<"W">> \o e>> ELSE <<>>)
                \o <<only_digits(no_prefix)>>
    IN  dedup_keys(keys, <<>>)

candidate_filenames(bot_id) ==
    LET variants == normalize_keys(bot_id)
    IN  [i \in 1..Len(variants) |-> variants[i] \o <<"J">>]

\* What a file holds: nothing that parses, a JSON value that is not an
\* object, or an object: a card (whose "realtime" is an object or absent, or
\* something else) or a bundle with a card under some keys.
FileKinds == {"absent", "malformed", "list", "card", "card_bad_realtime", "bundle"}

\* The keys of the bundle file.
BundleKeys == {<<"a">>, <<"c">>}

CardFile == BOTS_DIR \o <<SEP, "a", "J">>
BundleFile == BOTS_DIR \o <<SEP, "x", "J">>
SubdirFile == BOTS_DIR \o <<SEP, "s", SEP, "a", "J">>
SiblingFile == PROJECT_ROOT \o <<SEP, "b", SEP, "t", "x", SEP, "a", "J">>
ParentFile == PROJECT_ROOT \o <<SEP, "b", SEP, "a", "J">>
ParentPrefixFile == PROJECT_ROOT \o <<SEP, "b", SEP, "t", "J">>
OutsideFile == <<SEP, "e", "J">>

BotPaths == {CardFile, BundleFile, SubdirFile, SiblingFile, ParentFile,
             ParentPrefixFile, OutsideFile}

BotIds ==
    { <<>>, <<"a">>, <<"c">>, <<"a", "5">>, <<"W", "a">>, <<SP, "a">>,
      <<".", SEP, "a">>, <<"s", SEP, "a">>,
      <<".", ".", SEP, "a">>, <<".", ".", SEP, "t">>,
      <<".", ".", SEP, "t", "x", SEP, "a">>, <<SEP, "e">>,
      <<"5", "5", "5", "5", "5", "5", "5", "5", "5", "5">> }

isfile(files, path) == path \in DOMAIN files /\ files[path] # "absent"

\* resolve_bot_path: the first candidate that passes the check and exists.
RECURSIVE resolve_from(_, _)
resolve_from(files, fnames) ==
    IF fnames = <<>> THEN [found |-> FALSE, path |-> <<>>]
    ELSE LET path == safe_join(BOTS_DIR, Head(fnames))
         IN  IF StartsWith(path, BOTS_DIR) /\ isfile(files, path)
             THEN [found |-> TRUE, path |-> path]
             ELSE resolve_from(files, Tail(fnames))

resolve_bot_path(files, bot_id) == resolve_from(files, candidate_filenames(bot_id))

\* glob(os.path.join(BOTS_DIR, "*.json"))
glob_bots_dir(files) ==
    {p \in DOMAIN files :
        /\ files[p] # "absent"
        /\ StartsWith(p, BOTS_DIR \o <<SEP>>)
        /\ LET name == SubSeq(p, Len(BOTS_DIR) + 2, Len(p))
           IN  /\ \A i \in 1..Len(name) : name[i] # SEP
               /\ name # <<>> /\ name[Len(name)] = "J" /\ name[1] # "."}

\* _search_in_bundles: a file that parses to an object holding a card under
\* one of the keys.
search_in_bundles(files, bot_id) ==
    \E p \in glob_bots_dir(files) :
        files[p] = "bundle" /\ SeqElems(normalize_keys(bot_id)) \cap BundleKeys # {}

LdAnswer(result, source, defaults) ==
    [result |-> result, source |-> source, defaults |-> defaults]

load_bot(files, bot_id) ==
    LET r == resolve_bot_path(files, bot_id)
        kind == IF r.found THEN files[r.path] ELSE "absent"
    IN  IF r.found /\ kind = "malformed" THEN LdAnswer("JSONDecodeError", "none", FALSE)
        ELSE IF r.found /\ kind = "card_bad_realtime"
             THEN LdAnswer("AttributeError", "direct", FALSE)
        ELSE IF r.found /\ kind \in {"card", "bundle"} THEN LdAnswer("dict", "direct", TRUE)
        ELSE IF search_in_bundles(files, bot_id) THEN LdAnswer("dict", "bundle", TRUE)
        ELSE LdAnswer("BotConfigNotFound", "none", FALSE)

LdIdle == [kind |-> "none", bot_id |-> <<>>, result |-> "none", source |-> "none",
           defaults |-> FALSE, path |-> <<>>, direct |-> "absent", in_bundle |-> FALSE]

\* A deployment with one card.
IdleBotFiles == [p \in BotPaths |-> IF p = CardFile THEN "card" ELSE "absent"]

\* The files of the deployment; the file of the subdirectory and the two
\* files far from BOTS_DIR exist.
InitLoader ==
    /\ \E card \in FileKinds \ {"bundle"},
          bundle \in {"absent", "bundle", "malformed", "list"},
          sibling \in {"absent", "card"},
          prefixed \in {"absent", "card"} :
           botFiles = [p \in BotPaths |->
                          CASE p = CardFile -> card
                            [] p = BundleFile -> bundle
                            [] p = SiblingFile -> sibling
                            [] p = ParentPrefixFile -> prefixed
                            [] OTHER -> "card"]
    /\ ldLast = LdIdle

\* load_bot(bot_id)
LoadBot(bot_id) ==
    LET a == load_bot(botFiles, bot_id)
        r == resolve_bot_path(botFiles, bot_id)
    IN  /\ bot_id \in BotIds
        /\ ldLast' = [kind |-> "load", bot_id |-> bot_id, result |-> a.result,
                      source |-> a.source, defaults |-> a.defaults,
                      path |-> r.path,
                      direct |-> IF r.found THEN botFiles[r.path] ELSE "absent",
                      in_bundle |-> search_in_bundles(botFiles, bot_id)]
        /\ UNCHANGED botFiles
        /\ UNCHANGED notLdVars

\* resolve_bot_path(bot_id)
ResolveBotPath(bot_id) ==
    LET r == resolve_bot_path(botFiles, bot_id)
    IN  /\ bot_id \in BotIds
        /\ ldLast' = [kind |-> "resolve", bot_id |-> bot_id,
                      result |-> IF r.found THEN "path" ELSE "BotConfigNotFound",
                      source |-> "none", defaults |-> FALSE, path |-> r.path,
                      direct |-> IF r.found THEN botFiles[r.path] ELSE "absent",
                      in_bundle |-> FALSE]
        /\ UNCHANGED botFiles
        /\ UNCHANGED notLdVars

NextLoader ==
    \/ \E bot_id \in BotIds : LoadBot(bot_id)
    \/ \E bot_id \in BotIds : ResolveBotPath(bot_id)

-----------------------------------------------------------------------------
(***************************************************************************)
(* main.py: the Firebase document leads/<bot>/<numero> under concurrent    *)
(* requests.                                                               *)
(*                                                                         *)
(* Every writer reads the whole document with ref.get(), changes its copy  *)
(* and writes the whole copy back with ref.set(); the two calls are        *)
(* separate steps, and requests are served concurrently.  A request of     *)
(* POST /webhook appends the user entry and then reads bot_enabled.        *)
(***************************************************************************)

\* Requests in flight at the same time.
MaxLeadReqs == 2
\* fb_append_historial calls made.
MaxAppends == 2

LeadSlots == 1..MaxLeadReqs

LeadOps == {"webhook", "send_manual", "conversation_bot", "guardar"}

\* ref.get() or {} when nothing is stored.
NoLead == [bot_enabled |-> "none", historial |-> <<>>, messages |-> 0, status |-> "none"]

\* fb_append_historial: the copy it writes back.
lead_append(lead, tipo) ==
    [lead EXCEPT !.historial = Append(@, tipo),
                 !.messages = @ + 1,
                 !.status = IF @ = "none" THEN "nuevo" ELSE @]

\* fb_set_conversation_on: the copy it writes back.
lead_set_conversation(cur, enabled) ==
    [cur EXCEPT !.bot_enabled = IF enabled THEN "true" ELSE "false"]

\* guardar_edicion with an estado: the copy it writes back.
lead_guardar(current) == [current EXCEPT !.status = "editado"]

\* What a request writes back.
lead_written(req) ==
    CASE req.op = "webhook" -> lead_append(req.cur, "user")
      [] req.op = "send_manual" -> lead_append(req.cur, "admin")
      [] req.op = "conversation_bot" -> lead_set_conversation(req.cur, req.enabled)
      [] req.op = "guardar" -> lead_guardar(req.cur)

IdleReq == [op |-> "idle", pc |-> "idle", cur |-> NoLead, enabled |-> FALSE,
            afterOff |-> FALSE]

IsAppend(req) == req.op \in {"webhook", "send_manual"} /\ req.pc = "got"

AppendsInFlight == Cardinality({i \in LeadSlots : IsAppend(leadReqs[i])})

LeadIdle == [kind |-> "none", conv_on |-> TRUE, afterOff |-> FALSE, stale |-> FALSE]

InitLead ==
    /\ fbLead = NoLead
    /\ leadReqs = [i \in LeadSlots |-> IdleReq]
    /\ convOffAcked = FALSE
    /\ appendsDone = 0
    /\ leadOtherWrite = FALSE
    /\ leadLast = LeadIdle

\* A request arrives and its handler reads the document: ref.get().
LeadGet(i, op, enabled) ==
    /\ leadReqs[i].op = "idle"
    /\ op \in {"webhook", "send_manual"} => appendsDone + AppendsInFlight < MaxAppends
    /\ LET turnsOn == op = "conversation_bot" /\ enabled
           req == [op |-> op, pc |-> "got", cur |-> fbLead,
                   enabled |-> (op = "conversation_bot" /\ enabled),
                   afterOff |-> (op = "webhook" /\ convOffAcked)]
       IN  /\ leadReqs' = [j \in LeadSlots |->
                              IF j = i THEN req
                              ELSE IF turnsOn THEN [leadReqs[j] EXCEPT !.afterOff = FALSE]
                              ELSE leadReqs[j]]
           /\ convOffAcked' = (convOffAcked /\ ~turnsOn)
    /\ leadLast' = [LeadIdle EXCEPT !.kind = "get"]
    /\ UNCHANGED <<fbLead, appendsDone, leadOtherWrite>>
    /\ UNCHANGED notLeadVars

\* The handler writes its copy back: ref.set(copy).  The writers other than
\* POST /webhook answer after it.
LeadSet(i) ==
    LET req == leadReqs[i]
        onInFlight == \E j \in LeadSlots \ {i} :
                          leadReqs[j].op = "conversation_bot" /\ leadReqs[j].enabled
    IN  /\ req.pc = "got"
        /\ fbLead' = lead_written(req)
        /\ leadReqs' = [leadReqs EXCEPT ![i] =
                           IF req.op = "webhook" THEN [req EXCEPT !.pc = "written"]
                           ELSE IdleReq]
        /\ appendsDone' = IF IsAppend(req) THEN appendsDone + 1 ELSE appendsDone
        /\ leadOtherWrite' = (leadOtherWrite \/ ~IsAppend(req))
        /\ convOffAcked' = IF req.op = "conversation_bot" /\ ~req.enabled
                           THEN ~onInFlight
                           ELSE convOffAcked
        /\ leadLast' = [LeadIdle EXCEPT !.kind = req.op, !.stale = (req.cur # fbLead)]
        /\ UNCHANGED notLeadVars

\* POST /webhook reads the switch of the conversation: fb_is_conversation_on.
WebhookCheck(i) ==
    LET req == leadReqs[i]
    IN  /\ req.pc = "written"
        /\ leadLast' = [kind |-> "check",
                        conv_on |-> fb_is_conversation_on(fbLead.bot_enabled, FALSE),
                        afterOff |-> (req.afterOff /\ convOffAcked),
                        stale |-> FALSE]
        /\ leadReqs' = [leadReqs EXCEPT ![i] = IdleReq]
        /\ UNCHANGED <<fbLead, convOffAcked, appendsDone, leadOtherWrite>>
        /\ UNCHANGED notLeadVars

NextLead ==
    \/ \E i \in LeadSlots, op \in LeadOps, enabled \in BOOLEAN : LeadGet(i, op, enabled)
    \/ \E i \in LeadSlots : LeadSet(i)
    \/ \E i \in LeadSlots : WebhookCheck(i)

-----------------------------------------------------------------------------
(***************************************************************************)
(* billing_api.py: record_openai_usage on the document of one bot and one  *)
(* UTC day, under concurrent calls (POST /billing/track/openai and the     *)
(* WhatsApp handler).  ref.get() and ref.set() are separate steps.         *)
(***************************************************************************)

\* Calls in flight at the same time.
MaxUsageReqs == 2
\* record_openai_usage calls made.
MaxUsageCalls == 3
\* Tokens reported by one call.
MaxTokens == 2

UsageSlots == 1..MaxUsageReqs

\* (model or "unknown")
UsageModels == {"gpt-4o", "unknown"}

ModelNames == {"gpt-4o", ""}

model_key(model) == IF model = "" THEN "unknown" ELSE model

NoInfo == [requests |-> 0, input_tokens |-> 0, output_tokens |-> 0]

\* ref.get() or {} when nothing is stored; an absent counter reads as 0.
NoUsage == [total_input_tokens |-> 0, total_output_tokens |-> 0, total_requests |-> 0,
            model_counts |-> [m \in UsageModels |-> NoInfo]]

\* record_openai_usage: the copy it writes back.
usage_recorded(cur, model, input_tokens, output_tokens) ==
    LET m == model_key(model)
        info == cur.model_counts[m]
    IN  [total_input_tokens |-> cur.total_input_tokens + input_tokens,
         total_output_tokens |-> cur.total_output_tokens + output_tokens,
         total_requests |-> cur.total_requests + 1,
         model_counts |-> [cur.model_counts EXCEPT ![m] =
                              [requests |-> info.requests + 1,
                               input_tokens |-> info.input_tokens + input_tokens,
                               output_tokens |-> info.output_tokens + output_tokens]]]

IdleUsageReq == [pc |-> "idle", cur |-> NoUsage, model |-> "", input_tokens |-> 0,
                 output_tokens |-> 0]

UsageInFlight == Cardinality({i \in UsageSlots : usageReqs[i].pc = "got"})

InitLedger ==
    /\ fbUsageDay = NoUsage
    /\ usageReqs = [i \in UsageSlots |-> IdleUsageReq]
    /\ usageDone = [calls |-> 0, input_tokens |-> 0, output_tokens |-> 0]

\* record_openai_usage is called with a non-empty bot and reads the document.
UsageGet(i, model, input_tokens, output_tokens) ==
    /\ usageReqs[i].pc = "idle"
    /\ usageDone.calls + UsageInFlight < MaxUsageCalls
    /\ usageReqs' = [usageReqs EXCEPT ![i] =
                        [pc |-> "got", cur |-> fbUsageDay, model |-> model,
                         input_tokens |-> input_tokens, output_tokens |-> output_tokens]]
    /\ UNCHANGED <<fbUsageDay, usageDone>>
    /\ UNCHANGED notLedgerVars

\* record_openai_usage writes its copy back and returns.
UsageSet(i) ==
    LET req == usageReqs[i]
    IN  /\ req.pc = "got"
        /\ fbUsageDay' = usage_recorded(req.cur, req.model, req.input_tokens,
                                        req.output_tokens)
        /\ usageReqs' = [usageReqs EXCEPT ![i] = IdleUsageReq]
        /\ usageDone' = [calls |-> usageDone.calls + 1,
                         input_tokens |-> usageDone.input_tokens + req.input_tokens,
                         output_tokens |-> usageDone.output_tokens + req.output_tokens]
        /\ UNCHANGED notLedgerVars

NextLedger ==
    \/ \E i \in UsageSlots, model \in ModelNames,
          input_tokens \in 1..MaxTokens, output_tokens \in 0..1 :
           UsageGet(i, model, input_tokens, output_tokens)
    \/ \E i \in UsageSlots : UsageSet(i)

-----------------------------------------------------------------------------
(***************************************************************************)
(* instagram_webhook.py: _seen_mid under concurrent requests.              *)
(*                                                                         *)
(* The web server handles requests in concurrent threads of one process;   *)
(* _SEEN_SET and _SEEN_MIDS are module globals used without a lock, and a  *)
(* thread can be suspended between the membership test of _seen_mid and    *)
(* the statements that record the mid.  The deployment is the default one: *)
(* the bot is enabled and every event that passes _seen_mid is answered.   *)
(***************************************************************************)

\* Requests handled at the same time.
MaxIgThreads == 2
\* Deliveries of events.
MaxDeliveries == 4

IgThreads == 1..MaxIgThreads

RaceMids == {"m1", "m2"}

\* _seen_mid, line 37: if mid in _SEEN_SET: return True
seen_mid_test(mid, set) == mid \in set

\* _seen_mid, lines 38-40: the mid is recorded and the oldest one is evicted.
seen_mid_record(mid, mids, set) ==
    LET set1  == set \cup {mid}
        mids1 == DequeAppend(mids, mid, SeenMaxlen)
    IN  IF Cardinality(set1) > SeenMaxlen
        THEN [mids |-> Tail(mids1), set |-> set1 \ {Head(mids1)}]
        ELSE [mids |-> mids1, set |-> set1]

IdleThread == [pc |-> "idle", mid |-> ""]

InitRace ==
    /\ igThreads = [t \in IgThreads |-> IdleThread]
    /\ igDelivered = 0
    /\ igReplied = [m \in RaceMids |-> 0]

\* An event is delivered; handle_one reaches _seen_mid and tests the mid.
IgSeenTest(t, mid) ==
    /\ igThreads[t].pc = "idle"
    /\ igDelivered < MaxDeliveries
    /\ igDelivered' = igDelivered + 1
    /\ igThreads' = [igThreads EXCEPT ![t] =
                        IF seen_mid_test(mid, SEEN_SET) THEN IdleThread
                        ELSE [pc |-> "tested", mid |-> mid]]
    /\ UNCHANGED <<SEEN_MIDS, SEEN_SET, igReplied>>
    /\ UNCHANGED notRaceVars

\* _seen_mid records the mid and returns False.
IgSeenRecord(t) ==
    LET r == seen_mid_record(igThreads[t].mid, SEEN_MIDS, SEEN_SET)
    IN  /\ igThreads[t].pc = "tested"
        /\ SEEN_MIDS' = r.mids
        /\ SEEN_SET' = r.set
        /\ igThreads' = [igThreads EXCEPT ![t].pc = "passed"]
        /\ UNCHANGED <<igDelivered, igReplied>>
        /\ UNCHANGED notRaceVars

\* handle_one goes on: the reply is generated and sent.
IgRaceReply(t) ==
    /\ igThreads[t].pc = "passed"
    /\ igReplied' = [igReplied EXCEPT ![igThreads[t].mid] = @ + 1]
    /\ igThreads' = [igThreads EXCEPT ![t] = IdleThread]
    /\ UNCHANGED <<SEEN_MIDS, SEEN_SET, igDelivered>>
    /\ UNCHANGED notRaceVars

NextIGRace ==
    \/ \E t \in IgThreads, mid \in RaceMids : IgSeenTest(t, mid)
    \/ \E t \in IgThreads : IgSeenRecord(t)
    \/ \E t \in IgThreads : IgRaceReply(t)

-----------------------------------------------------------------------------
(* Specifications *)

\* A subsystem at rest while another one is explored.
IdleIG == InitIG /\ igEnv = IgEnvDefault
IdleBridge == InitBridge
IdleWA == InitWA
IdleApi == InitApi /\ API_BEARER_TOKEN = <<>>
IdleEleven == InitEleven /\ XI_API_KEY /\ elCards = [b \in ElevenBots |-> "agent"]
IdleSendLink ==
    InitSendLink /\ slCard = [raises |-> FALSE, booking |-> TRUE, from |-> TRUE, creds |-> TRUE]
IdleCore == IdleIG /\ IdleBridge /\ IdleWA /\ IdleApi /\ IdleEleven
IdleLoader == botFiles = IdleBotFiles /\ ldLast = LdIdle
IdleLead == InitLead
IdleLedger == InitLedger
IdleDialogue == InitDialogue
IdleRace == InitRace
IdleExt == IdleSendLink /\ IdleLoader /\ IdleLead /\ IdleLedger /\ IdleDialogue /\ IdleRace

\* The de-duplication is explored in the default deployment.
InitDedup == IdleIG /\ IdleBridge /\ IdleWA /\ IdleApi /\ IdleEleven /\ IdleExt
InitSwitch == InitIG /\ IdleBridge /\ IdleWA /\ IdleApi /\ IdleEleven /\ IdleExt
InitBr == IdleIG /\ InitBridge /\ IdleWA /\ IdleApi /\ IdleEleven /\ IdleExt
InitWhatsApp == IdleIG /\ IdleBridge /\ InitWA /\ IdleApi /\ IdleEleven /\ IdleExt
InitBearer == IdleIG /\ IdleBridge /\ IdleWA /\ InitApi /\ IdleEleven /\ IdleExt
InitElevenLabs == IdleIG /\ IdleBridge /\ IdleWA /\ IdleApi /\ InitEleven /\ IdleExt

InitSl == IdleCore /\ InitSendLink /\ IdleLoader /\ IdleLead /\ IdleLedger /\ IdleDialogue /\ IdleRace
InitLd == IdleCore /\ IdleSendLink /\ InitLoader /\ IdleLead /\ IdleLedger /\ IdleDialogue /\ IdleRace
InitLeadDoc == IdleCore /\ IdleSendLink /\ IdleLoader /\ InitLead /\ IdleLedger /\ IdleDialogue /\ IdleRace
InitDlg == IdleCore /\ IdleExt
InitIGRace == IdleCore /\ IdleExt
InitUsage == IdleCore /\ IdleSendLink /\ IdleLoader /\ IdleLead /\ InitLedger /\ IdleDialogue /\ IdleRace

SpecIGDedup == InitDedup /\ [][NextIGDedup]_vars

SpecIGSwitch == InitSwitch /\ [][NextIGSwitch]_vars

SpecBridge == InitBr /\ [][NextBridge]_vars

SpecWA == InitWhatsApp /\ [][NextWA]_vars

SpecApi == InitBearer /\ [][NextApi]_vars

SpecEleven == InitElevenLabs /\ [][NextEleven]_vars

SpecSendLink == InitSl /\ [][NextSendLink]_vars

SpecLoader == InitLd /\ [][NextLoader]_vars

SpecLead == InitLeadDoc /\ [][NextLead]_vars

SpecLedger == InitUsage /\ [][NextLedger]_vars

SpecWADialogue == InitDlg /\ [][NextWADialogue]_vars

SpecIGRace == InitIGRace /\ [][NextIGRace]_vars

\* Time passes, and Twilio keeps delivering audio frames that the loop handles.
SpecBridgeLive ==
    /\ InitBr
    /\ [][NextBridge]_vars
    /\ WF_vars(BrTick)
    /\ WF_vars(TwilioMediaDelivered)

-----------------------------------------------------------------------------
(***************************************************************************)
(* Claims                                                                  *)
(***************************************************************************)

\* C2: an Instagram event whose non-empty mid is one of the SeenMaxlen most
\* recent distinct mids handed to _seen_mid is not processed again: nothing
\* is sent, no LLM call is made, IG_SESSION_HISTORY and IG_GREETED stay as
\* they were.
C2_RecentMidNotProcessedAgain ==
    igLast.recentDup =>
        /\ ~igLast.passed
        /\ igLast.sent = 0
        /\ igLast.llm = 0
        /\ igLast.stateSame

\* C3: once the WordPress endpoint has reported enabled=false for
\* IG_STATUS_TTL seconds (every fetch answering 200), no request sends an
\* Instagram message and inbound events are answered 'disabled'; inside the
\* TTL the cached value is returned without a fetch.
C3_SwitchOffStopsInstagram ==
    /\ (igLast.kind # "none" /\ igLast.offLong) =>
            /\ igLast.sent = 0
            /\ igLast.llm = 0
            /\ ~igLast.enabled
            /\ (igLast.kind = "events" => igLast.status = "disabled")
    /\ (igLast.kind # "none" /\ ~igLast.expired) =>
            /\ igLast.fetches = 0
            /\ igLast.enabled = igLast.prevOk
            /\ IG_STATUS_CACHE.ok = igLast.prevOk

\* C3 witness: an inbound event arrives after the switch has been off for the
\* TTL, the stale cached "on" is re-fetched and the event is answered
\* 'disabled'.
C3_Witness ==
    /\ igLast.kind = "events"
    /\ igLast.offLong
    /\ igLast.prevOk
    /\ igLast.fetches = 1
    /\ igLast.status = "disabled"

\* C9: with a status URL configured and the cache expired, a fetch that
\* raises or answers non-200 yields IG_STATUS_DEFAULT_ON and caches it with
\* the current time, whatever was cached before; with no URL configured the
\* answer is always IG_STATUS_DEFAULT_ON.
C9_FetchFailureFallsBackToDefault ==
    /\ (igLast.kind # "none" /\ igEnv.wp_url /\ igLast.expired /\ igLast.failed) =>
            /\ igLast.enabled = igEnv.default_on
            /\ IG_STATUS_CACHE = [ok |-> igEnv.default_on, ts |-> igNow]
    /\ (igLast.kind # "none" /\ ~igEnv.wp_url) =>
            igLast.enabled = igEnv.default_on

\* C9 witness: GET /ig_status finds the cache expired, the fetch fails and
\* the value cached before differed from the default.
C9_Witness ==
    /\ igLast.kind = "status"
    /\ igEnv.wp_url
    /\ igLast.expired
    /\ igLast.failed
    /\ igLast.prevOk # igEnv.default_on
    /\ igLast.enabled = igEnv.default_on


\* C5: the bridge never sends a response.create while a response it asked
\* for earlier has not ended.
C5_SingleActiveResponse ==
    brLast.create => brLast.activeBefore = 0

\* C6: every input_audio_buffer.commit is sent with at least
\* MIN_COMMIT_SAMPLES samples appended since the previous commit or since the
\* last start event.
C6_CommitOnlyWithAudio ==
    brLast.commit => brLast.samplesAtCommit >= MIN_COMMIT_SAMPLES

\* C6 witness: a media event sends a commit.
C6_Witness ==
    /\ brLast.kind = "media"
    /\ brLast.commit
    /\ brLast.create
    /\ brLast.samplesAtCommit >= MIN_COMMIT_SAMPLES

\* The caller has spoken, has been silent long enough, and nothing else
\* holds the commit back.
C7_Premise ==
    /\ ~stop_flag
    /\ have_appended_since_last_commit
    /\ speechSinceMark
    /\ appended_samples_since_last_commit >= MIN_COMMIT_SAMPLES
    /\ brNow - lastSpeechTime >= MIN_SILENCE_GAP_SEC
    /\ ~ai_busy
    /\ brNow - last_commit_time >= MIN_COMMIT_GAP_SEC
\* The turn was answered, or the call left the situation the claim is about.
C7_Released ==
    \/ brLast.commit /\ brLast.create
    \/ stop_flag
    \/ brLast.kind = "start"
    \/ brLast.kind = "media" /\ brLast.payload = "speech"
    \/ brLast.sendFailed
\* C7: once at least MIN_COMMIT_SAMPLES samples are appended, the caller has
\* been silent for MIN_SILENCE_GAP_SEC, the AI is not busy and
\* MIN_COMMIT_GAP_SEC has passed since the last commit, the bridge eventually
\* sends commit and response.create while Twilio keeps delivering frames
\* (unless the call ends, restarts, the caller speaks again or a send to the
\* AI fails).
C7_SilenceLeadsToCommit == C7_Premise ~> C7_Released

\* C8: the greeting response.create is sent at most once on a connection: a
\* start event sends it exactly when none was sent before and the send
\* succeeds.
C8_GreetingAtMostOnce ==
    /\ greetingsSent <= 1
    /\ brLast.kind = "start" =>
           (brLast.greeting <=> (brLast.greetedBefore = 0 /\ brLast.greetOk))

\* C8 witness: a start event arrives after the greeting was sent; its send
\* would succeed and no second greeting goes out.
C8_Witness ==
    /\ brLast.kind = "start"
    /\ brLast.greetedBefore = 1
    /\ brLast.greetOk
    /\ ~brLast.greeting
    /\ ~brLast.create

\* C1 (as stated): for a configured bot, when the bot's global status or the
\* conversation is OFF, the handler returns an empty TwiML reply, calls no LLM,
\* appends no 'bot' entry, leaves agenda_state unchanged, and the inbound user
\* message is appended to the lead history.
C1_KillSwitchAsStated ==
    (waLast.kind = "webhook" /\ waLast.known /\ waLast.off) =>
        /\ waLast.http = "200" /\ waLast.empty
        /\ waLast.llm = 0
        /\ ~waLast.bot_appended
        /\ waLast.agenda_same
        /\ waLast.user_appended

\* C1 (amended): under the same condition no LLM call is made, no 'bot' entry
\* is appended and agenda_state is unchanged; the reply is an empty TwiML
\* unless the session hydration read raised (then HTTP 500 and nothing is
\* appended); the user message is appended exactly when hydration did not
\* raise and the Firebase write succeeded.
C1_KillSwitch ==
    (waLast.kind = "webhook" /\ waLast.known /\ waLast.off) =>
        /\ waLast.llm = 0
        /\ ~waLast.bot_appended
        /\ waLast.agenda_same
        /\ IF waLast.hydrate_raised
           THEN waLast.http = "500" /\ ~waLast.user_appended
           ELSE /\ waLast.http = "200" /\ waLast.empty
                /\ (waLast.user_appended <=> ~waLast.append_failed)

\* C1 witness: the switch is OFF while the conversation awaits a
\* confirmation; the message is stored and the reply is empty.
C1_Witness ==
    /\ waLast.kind = "webhook" /\ waLast.known /\ waLast.off
    /\ ~waLast.hydrate_raised
    /\ waLast.user_appended
    /\ waLast.empty
    /\ agenda_state.awaiting_confirm

\* A request without panel session while a token is configured.
C4_Protected ==
    /\ apiLast.kind = "request"
    /\ API_BEARER_TOKEN # <<>>
    /\ ~apiLast.autenticado
    /\ apiLast.route \in ApiRoutes

\* The request made no Twilio send, no FCM send and no Firebase write.
C4_NoEffect == ~apiLast.twilio /\ ~apiLast.fcm /\ ~apiLast.fb_write

C10_ProxyOrdering ==
    elLast.kind = "request" =>
        /\ elLast.sdp_requested =>
               /\ elLast.key /\ elLast.agent_found /\ ~elLast.offer_blank
               /\ elLast.token = "200_token"
        /\ ~elLast.key => (elLast.status = 500 /\ ~elLast.sdp_requested)
        /\ (elLast.key /\ ~elLast.agent_found) =>
               (elLast.status = 404 /\ ~elLast.sdp_requested)
        /\ (elLast.key /\ elLast.agent_found /\ elLast.offer_blank) =>
               (elLast.status = 400 /\ ~elLast.sdp_requested)
        /\ (elLast.key /\ elLast.agent_found /\ ~elLast.offer_blank
                /\ elLast.token # "200_token") =>
               /\ elLast.status = IF elLast.token = "timeout" THEN 504 ELSE 502
               /\ ~elLast.sdp_requested
        /\ elLast.answer => (elLast.sdp_requested /\ elLast.sdp = "200")

\* C11: POST /actions/send-link creates a Twilio message only if the bot key
\* is non-empty, the phone normalizes to a US E.164 number, the bot config
\* loads, a link is available and from/sid/token are resolved; otherwise it
\* answers HTTP 400 with the error of the first failing check, in the order
\* BOT_REQUIRED, PHONE_INVALID, BOT_LOAD_ERROR, LINK_MISSING, CONFIG_MISSING,
\* and sends nothing.
C11_SendLinkChecks ==
    slLast.kind = "request" =>
        LET first == CASE ~slLast.bot_ok -> "BOT_REQUIRED"
                       [] slLast.bot_ok /\ ~slLast.phone_ok -> "PHONE_INVALID"
                       [] slLast.bot_ok /\ slLast.phone_ok /\ ~slLast.card_ok
                              -> "BOT_LOAD_ERROR"
                       [] slLast.bot_ok /\ slLast.phone_ok /\ slLast.card_ok
                              /\ ~slLast.link_ok -> "LINK_MISSING"
                       [] slLast.bot_ok /\ slLast.phone_ok /\ slLast.card_ok
                              /\ slLast.link_ok /\ ~slLast.config_ok -> "CONFIG_MISSING"
                       [] OTHER -> ""
        IN  /\ slLast.created => first = ""
            /\ first # "" => /\ slLast.status = 400
                             /\ slLast.error = first
                             /\ ~slLast.created

\* C11 for the requests whose body is a JSON object with string fields.
C11_TypedRequests == slLast.typed => C11_SendLinkChecks

\* C12: load_bot returns a dict (the direct file preferred over a bundle
\* entry, with the defaults present) or raises BotConfigNotFound; when the
\* direct file is absent, malformed or not an object and no bundle entry
\* matches, the outcome is BotConfigNotFound and never another exception.
C12_LoadBotOutcome ==
    ldLast.kind = "load" =>
        /\ ldLast.result \in {"dict", "BotConfigNotFound"}
        /\ ldLast.result = "dict" =>
               /\ ldLast.defaults
               /\ ldLast.direct \in {"card", "bundle"} => ldLast.source = "direct"
        /\ (ldLast.direct \in {"absent", "malformed", "list"} /\ ~ldLast.in_bundle)
               => ldLast.result = "BotConfigNotFound"

\* C13: resolve_bot_path returns only the path of a file located inside
\* BOTS_DIR, whatever the bot_id.
C13_NoPathEscape ==
    (ldLast.kind = "resolve" /\ ldLast.result = "path") =>
        StartsWith(ldLast.path, BOTS_DIR \o <<SEP>>)

\* C14: once POST /api/conversation_bot with enabled=false has answered ok,
\* every inbound message that arrives later reads the conversation as OFF,
\* until a request with enabled=true is made, whatever writes of
\* fb_append_historial or /guardar-lead are in flight.
C14_KillSwitchSurvives ==
    (leadLast.kind = "check" /\ leadLast.afterOff) => ~leadLast.conv_on

\* C15: when the fb_append_historial calls made have completed, the historial
\* holds one entry for each of them and the messages counter has grown by
\* one for each of them.
C15_NoLostEntries ==
    (AppendsInFlight = 0 /\ ~leadOtherWrite) =>
        /\ Len(fbLead.historial) = appendsDone
        /\ fbLead.messages = appendsDone

\* C16: when the record_openai_usage calls made for a bot and a UTC day have
\* completed, total_requests is their number, total_input_tokens and
\* total_output_tokens are the sums of the tokens they reported, and each
\* total is the sum of its field over model_counts.
C16_LedgerCountsEveryCall ==
    UsageInFlight = 0 =>
        LET over(field) == fbUsageDay.model_counts["gpt-4o"][field]
                           + fbUsageDay.model_counts["unknown"][field]
        IN  /\ fbUsageDay.total_requests = usageDone.calls
            /\ fbUsageDay.total_input_tokens = usageDone.input_tokens
            /\ fbUsageDay.total_output_tokens = usageDone.output_tokens
            /\ fbUsageDay.total_requests = over("requests")
            /\ fbUsageDay.total_input_tokens = over("input_tokens")
            /\ fbUsageDay.total_output_tokens = over("output_tokens")

\* The totals of the stored document always agree with its model_counts.
C16_TotalsMatchModelCounts ==
    /\ fbUsageDay.total_requests
           = fbUsageDay.model_counts["gpt-4o"].requests
             + fbUsageDay.model_counts["unknown"].requests
    /\ fbUsageDay.total_input_tokens
           = fbUsageDay.model_counts["gpt-4o"].input_tokens
             + fbUsageDay.model_counts["unknown"].input_tokens

C17_NoLinkAfterDecline ==
    (waSeen.kind = "webhook" /\ waSeen.body = "link_message") => ~waSeen.declined

\* C18: every non-empty reply body that POST /webhook returns to the user for
\* a configured bot that is ON is appended to the Firebase history of the
\* lead as a 'bot' entry.
C18_EveryReplyPersisted ==
    (waSeen.kind = "webhook" /\ waSeen.body # "empty") => waSeen.bot_entries = 1

\* C19: when the same Instagram event (same non-empty mid) is delivered more
\* than once and the deliveries are handled by concurrent requests, at most
\* one of them passes _seen_mid and produces a reply.
C19_OneReplyPerMid == \A m \in RaceMids : igReplied[m] <= 1

=============================================================================
